---- MODULE Spec2Model ----
(***************************************************************************)
(* A model of the ingestion core of moshiki: the term map (regular hashed  *)
(* store, id-like flat log, catch-all store), the grouping of tokenized    *)
(* lines into document groups with constant-to-variable promotion, the     *)
(* dictionary writer with its old-id -> new-id mapping, the column and     *)
(* template writers, and the single-term search over the written index.    *)
(*                                                                         *)
(* Byte strings are sequences of numbers 0..255.  Rust vectors are         *)
(* sequences; a Rust index i is the TLA+ index i + 1.                       *)
(***************************************************************************)
EXTENDS Integers, Sequences, FiniteSets, TLC

VARIABLES
    termmap,        \* IndexingTermmap (PreliminaryIndex::term_hash_map)
    calls,          \* history of the IndexingTermmap::mutate_or_create calls
    doc_groups,     \* DocGroups (PreliminaryIndex::doc_groups)
    arrival,        \* history: per group key, the lines placed in the group, in order
    lines_consumed, \* history: the number of lines preliminary_index has consumed
    index,          \* the written index: templates, dictionary, column files
    search_result,  \* the last Searcher::search: its query and the Docs returned
    patterns,       \* history: the last merge_templates or split_templates call
    tokenizer,      \* Tokenizer (input, pos, token_count) and the tokens it has yielded
    hashmap         \* a SharedArenaHashMap on its own, with the history of its calls

vars ==
    <<termmap, calls, doc_groups, arrival, lines_consumed, index, search_result, patterns,
      tokenizer, hashmap>>

----------------------------------------------------------------------------
(* Generic helpers.                                                        *)

Min(a, b) == IF a <= b THEN a ELSE b

Range(s) == {s[i] : i \in DOMAIN s}

RECURSIVE SumSeq(_)
SumSeq(s) == IF s = <<>> THEN 0 ELSE Head(s) + SumSeq(Tail(s))

RECURSIVE Repeat(_, _)
Repeat(x, n) == IF n = 0 THEN <<>> ELSE <<x>> \o Repeat(x, n - 1)

\* Lexicographic order on byte strings, as <[u8] as Ord>::cmp.
RECURSIVE BytesLess(_, _)
BytesLess(a, b) ==
    IF b = <<>> THEN FALSE
    ELSE IF a = <<>> THEN TRUE
    ELSE IF Head(a) < Head(b) THEN TRUE
    ELSE IF Head(a) > Head(b) THEN FALSE
    ELSE BytesLess(Tail(a), Tail(b))

\* u32::to_le_bytes / u32::from_le_bytes
u32_to_le_bytes(v) ==
    <<v % 256, (v \div 256) % 256, (v \div 65536) % 256, (v \div 16777216) % 256>>

u32_from_le_bytes(b) == b[1] + 256 * b[2] + 65536 * b[3] + 16777216 * b[4]

\* u16::to_le_bytes / u16::from_le_bytes
u16_to_le_bytes(v) == <<v % 256, (v \div 256) % 256>>

u16_from_le_bytes(b) == b[1] + 256 * b[2]

----------------------------------------------------------------------------
(* SharedArenaHashMap<u32> together with its MemoryArena.                   *)
(* A map is [table, mask, len, arena]; a bucket is [key_addr, hash, value]. *)
(* The arena is a flat byte sequence; Addr is an offset into it.            *)

\* u16::MAX as usize, the length a key is capped to and the largest length
\* the prefix holds (65535 in the program, scaled down so that longer keys
\* occur; no term of the lines of the model is longer)
U16_MAX == 3

\* Addr::null_pointer()
NullAddr == -1

\* KeyValue::default()
EmptyBucket == [key_addr |-> NullAddr, hash |-> 0, value |-> 0]

\* The number of distinct values of the hash in the model.
HashRange == 4

\* hash_key: the key hash (murmurhash2 in the program).  The model uses a
\* small deterministic hash with collisions, so that the probing, the hash
\* comparison and the key comparison are all exercised.
hash_key(key) == SumSeq(key) % HashRange

\* compute_previous_power_of_two: the greatest power of two <= n, n > 0
RECURSIVE compute_previous_power_of_two(_)
compute_previous_power_of_two(n) ==
    IF n < 2 THEN 1 ELSE 2 * compute_previous_power_of_two(n \div 2)

\* SharedArenaHashMap::with_capacity, with the MemoryArena the map is used with
with_capacity(table_size) ==
    [table |-> Repeat(EmptyBucket,
                      compute_previous_power_of_two(IF table_size >= 1 THEN table_size ELSE 1)),
     mask  |-> compute_previous_power_of_two(IF table_size >= 1 THEN table_size ELSE 1) - 1,
     len   |-> 0,
     arena |-> <<>>]

\* SharedArenaHashMap::default(): with_capacity(4)
NewHashMap == with_capacity(4)

\* pos & mask for a power-of-two table (mask = table length - 1)
AndMask(pos, mask) == pos % (mask + 1)

\* SharedArenaHashMap::is_saturated
is_saturated(m) == Len(m.table) <= m.len * 2

\* SharedArenaHashMap::read_key_bytes
read_key_bytes(addr, arena) ==
    LET len == u16_from_le_bytes(SubSeq(arena, addr + 1, addr + 2))
    IN SubSeq(arena, addr + 3, addr + 2 + len)

\* key_matches with the comparison lost: no stored key ever matches.
key_matches_never(stored_addr, target, arena) == FALSE

\* SharedArenaHashMap::key_matches (without the compare_hash_only feature)
key_matches(stored_addr, target, arena) == read_key_bytes(stored_addr, arena) = target

\* The first bucket at or after `pos` (probing order) that is empty.
RECURSIVE FirstEmptyFrom(_, _, _)
FirstEmptyFrom(table, pos, mask) ==
    LET bucket == AndMask(pos, mask)
    IN IF table[bucket + 1].key_addr = NullAddr THEN bucket
       ELSE FirstEmptyFrom(table, pos + 1, mask)

\* The loop of resize: re-insert the non-empty buckets of old[i..] in table order.
RECURSIVE ReinsertFrom(_, _, _, _)
ReinsertFrom(old, i, new_table, new_mask) ==
    IF i > Len(old) THEN new_table
    ELSE IF old[i].key_addr = NullAddr THEN ReinsertFrom(old, i + 1, new_table, new_mask)
    ELSE LET bucket == FirstEmptyFrom(new_table, old[i].hash + 1, new_mask)
         IN ReinsertFrom(old, i + 1, [new_table EXCEPT ![bucket + 1] = old[i]], new_mask)

\* resize that copies the buckets to their old positions instead of
\* re-inserting them under the new mask.
resize_no_rehash(m) ==
    LET new_len == IF Len(m.table) * 2 >= 8 THEN Len(m.table) * 2 ELSE 8
    IN [m EXCEPT !.table = m.table \o Repeat(EmptyBucket, new_len - Len(m.table)),
                 !.mask  = new_len - 1]

\* SharedArenaHashMap::resize
resize(m) ==
    LET new_len  == IF Len(m.table) * 2 >= 8 THEN Len(m.table) * 2 ELSE 8
        new_mask == new_len - 1
    IN [m EXCEPT !.table = ReinsertFrom(m.table, 1, Repeat(EmptyBucket, new_len), new_mask),
                 !.mask  = new_mask]

\* The probe loop shared by get and mutate_or_create: the first bucket in
\* probing order that is empty or holds the key.
RECURSIVE ProbeFrom(_, _, _, _)
ProbeFrom(m, pos, hash, key) ==
    LET bucket == AndMask(pos, m.mask)
        kv     == m.table[bucket + 1]
    IN IF kv.key_addr = NullAddr THEN bucket
       ELSE IF kv.hash = hash /\ key_matches(kv.key_addr, key, m.arena) THEN bucket
       ELSE ProbeFrom(m, pos + 1, hash, key)

\* mutate_or_create from the end of the probe loop: bucket is empty (the
\* key is stored in the arena and the bucket filled with fresh) or holds the
\* key (its value is stored back)
StoreAt(m, key, hash, bucket, fresh) ==
    IF m.table[bucket + 1].key_addr = NullAddr
    THEN [map |-> [m EXCEPT
                     !.arena = m.arena \o u16_to_le_bytes(Len(key)) \o key,
                     !.table[bucket + 1] =
                         [key_addr |-> Len(m.arena), hash |-> hash, value |-> fresh],
                     !.len = m.len + 1],
          value |-> fresh, created |-> TRUE]
    ELSE [map |-> [m EXCEPT !.table[bucket + 1].value = m.table[bucket + 1].value],
          value |-> m.table[bucket + 1].value, created |-> FALSE]

\* mutate_or_create after the resize and the clamp of the key
ProbeAndStore(m, key, fresh) ==
    StoreAt(m, key, hash_key(key), ProbeFrom(m, hash_key(key) + 1, hash_key(key), key), fresh)

\* SharedArenaHashMap::mutate_or_create, for the updater of IndexingTermmap:
\* Some(existing) -> existing, None -> fresh.  The result is the map, the
\* value stored and whether the key was created.
HashMap_mutate_or_create(m0, key0, fresh) ==
    ProbeAndStore(IF is_saturated(m0) THEN resize(m0) ELSE m0,
                  SubSeq(key0, 1, Min(Len(key0), U16_MAX)), fresh)

\* SharedArenaHashMap::get; NoValue stands for None
NoValue == -1

HashMap_get(m, key) ==
    LET hash   == hash_key(key)
        bucket == ProbeFrom(m, hash + 1, hash, key)
        kv     == m.table[bucket + 1]
    IN IF kv.key_addr = NullAddr THEN NoValue ELSE kv.value

\* mutate_or_create from the end of the probe loop, for an updater that
\* answers new_val: seen is what the updater was called with, NoValue for None
StoreUpdated(m, key, hash, bucket, new_val) ==
    IF m.table[bucket + 1].key_addr = NullAddr
    THEN [map |-> [m EXCEPT
                     !.arena = m.arena \o u16_to_le_bytes(Len(key)) \o key,
                     !.table[bucket + 1] =
                         [key_addr |-> Len(m.arena), hash |-> hash, value |-> new_val],
                     !.len = m.len + 1],
          seen |-> NoValue, value |-> new_val]
    ELSE [map |-> [m EXCEPT !.table[bucket + 1].value = new_val],
          seen |-> m.table[bucket + 1].value, value |-> new_val]

\* mutate_or_create after the resize and the clamp of the key, for an
\* updater that answers new_val
ProbeAndUpdate(m, key, new_val) ==
    StoreUpdated(m, key, hash_key(key), ProbeFrom(m, hash_key(key) + 1, hash_key(key), key),
                 new_val)

\* SharedArenaHashMap::mutate_or_create(key, arena, |o| new_val): the map,
\* what the updater saw and the value returned
SharedArenaHashMap_mutate_or_create(m0, key0, new_val) ==
    ProbeAndUpdate(IF is_saturated(m0) THEN resize(m0) ELSE m0,
                   SubSeq(key0, 1, Min(Len(key0), U16_MAX)), new_val)

\* No bucket: the probe loop came back to its first bucket
NoBucket == -1

\* The probe loop of get for at most n more probes: the bucket it ends at,
\* or NoBucket when none of the n buckets is empty or holds the key
RECURSIVE ProbeWithin(_, _, _, _, _)
ProbeWithin(m, pos, hash, key, n) ==
    LET bucket == AndMask(pos, m.mask)
        kv     == m.table[bucket + 1]
    IN IF n = 0 THEN NoBucket
       ELSE IF kv.key_addr = NullAddr THEN bucket
       ELSE IF kv.hash = hash /\ key_matches(kv.key_addr, key, m.arena) THEN bucket
       ELSE ProbeWithin(m, pos + 1, hash, key, n - 1)

\* The loop of get ends: after as many probes as the table has buckets the
\* probe sequence repeats, so a loop that has not ended by then never ends
get_returns(m, key) ==
    ProbeWithin(m, hash_key(key) + 1, hash_key(key), key, Len(m.table)) # NoBucket

\* SharedArenaHashMap::iter: the (key, value) pairs of the non-empty buckets,
\* in table order.
RECURSIVE HashMap_iter_from(_, _)
HashMap_iter_from(m, i) ==
    IF i > Len(m.table) THEN <<>>
    ELSE IF m.table[i].key_addr = NullAddr THEN HashMap_iter_from(m, i + 1)
    ELSE <<[bytes |-> read_key_bytes(m.table[i].key_addr, m.arena),
            id    |-> m.table[i].value]>> \o HashMap_iter_from(m, i + 1)

HashMap_iter(m) == HashMap_iter_from(m, 1)

----------------------------------------------------------------------------
(* IndexingTermmap                                                          *)

\* No SharedArenaHashMap on its own has been created
NoHashMap ==
    [map |-> NewHashMap, entries |-> <<>>, count |-> 0,
     last |-> [op |-> "none", key |-> <<>>, present |-> NoValue, seen |-> NoValue,
               result |-> NoValue]]

\* IndexingTermmap::default()
NewTermmap ==
    [term_hash_map           |-> NewHashMap,
     catch_all_term_hash_map |-> NewHashMap,
     unique_term_hash_map    |-> <<>>,
     next_term_id            |-> 0,
     next_term_id_catch_all  |-> 0]

\* IndexingTermmap::push_unique: append [u32 len | bytes | u32 id]
push_unique(buf, bytes, term_id) ==
    buf \o u32_to_le_bytes(Len(bytes)) \o bytes \o u32_to_le_bytes(term_id)

\* UniqueTermIter::next, iterated from position pos (0-based) to the end
RECURSIVE UniqueTermIter(_, _)
UniqueTermIter(buf, pos) ==
    IF pos >= Len(buf) THEN <<>>
    ELSE IF pos + 4 > Len(buf) THEN <<>>
    ELSE LET len == u32_from_le_bytes(SubSeq(buf, pos + 1, pos + 4))
             p1  == pos + 4
         IN IF p1 + len + 4 > Len(buf) THEN <<>>
            ELSE <<[bytes |-> SubSeq(buf, p1 + 1, p1 + len),
                    id    |-> u32_from_le_bytes(SubSeq(buf, p1 + len + 1, p1 + len + 4))]>>
                 \o UniqueTermIter(buf, p1 + len + 4)

\* IndexingTermmap::iter_unique
iter_unique(tm) == UniqueTermIter(tm.unique_term_hash_map, 0)

\* IndexingTermmap::iter: the regular store chained with the id-like log
Termmap_iter(tm) == HashMap_iter(tm.term_hash_map) \o iter_unique(tm)

\* IndexingTermmap::iter_catch_all
iter_catch_all(tm) == HashMap_iter(tm.catch_all_term_hash_map)

\* IndexingTermmap::len
Termmap_len(tm) == tm.term_hash_map.len + Len(iter_unique(tm))

\* mutate_or_create whose id-like path forgets to advance next_term_id.
mutate_or_create_id_like_keeps_counter(tm, key, is_id_like, is_catch_all) ==
    IF is_catch_all
    THEN LET r == HashMap_mutate_or_create(tm.catch_all_term_hash_map, key,
                                           tm.next_term_id_catch_all)
         IN [tm |-> [tm EXCEPT !.catch_all_term_hash_map = r.map,
                               !.next_term_id_catch_all =
                                   IF r.created THEN @ + 1 ELSE @],
             id |-> r.value]
    ELSE IF is_id_like
    THEN [tm |-> [tm EXCEPT !.unique_term_hash_map =
                                push_unique(@, key, tm.next_term_id)],
          id |-> tm.next_term_id]
    ELSE LET r == HashMap_mutate_or_create(tm.term_hash_map, key, tm.next_term_id)
         IN [tm |-> [tm EXCEPT !.term_hash_map = r.map,
                               !.next_term_id = IF r.created THEN @ + 1 ELSE @],
             id |-> r.value]

\* mutate_or_create, the catch-all path after the call of the store: r is
\* [map, value, created]
CatchAllInterned(tm, r) ==
    [tm |-> [tm EXCEPT !.catch_all_term_hash_map = r.map,
                       !.next_term_id_catch_all = IF r.created THEN @ + 1 ELSE @],
     id |-> r.value]

\* mutate_or_create, the regular path after the call of the store
RegularInterned(tm, r) ==
    [tm |-> [tm EXCEPT !.term_hash_map = r.map,
                       !.next_term_id = IF r.created THEN @ + 1 ELSE @],
     id |-> r.value]

\* IndexingTermmap::mutate_or_create(key, is_id_like, is_catch_all).
\* The result is [tm, id].
mutate_or_create(tm, key, is_id_like, is_catch_all) ==
    IF is_catch_all
    THEN CatchAllInterned(tm, HashMap_mutate_or_create(tm.catch_all_term_hash_map, key,
                                                       tm.next_term_id_catch_all))
    ELSE IF is_id_like
    THEN [tm |-> [tm EXCEPT !.next_term_id = @ + 1,
                            !.unique_term_hash_map =
                                push_unique(@, key, tm.next_term_id)],
          id |-> tm.next_term_id]
    ELSE RegularInterned(tm, HashMap_mutate_or_create(tm.term_hash_map, key,
                                                      tm.next_term_id))

----------------------------------------------------------------------------
(* FxHasher (64 bit).  A u64 is a sequence of 8 bytes, least significant    *)
(* first, so that the 64-bit arithmetic of the hasher keeps its width.      *)

U64_ZERO == <<0, 0, 0, 0, 0, 0, 0, 0>>

\* u64::from(i) for a byte i
U64FromByte(b) == <<b, 0, 0, 0, 0, 0, 0, 0>>

\* The multiplier of the hasher, 0x517cc1b727220a95
FX_SEED64 == <<149, 10, 34, 39, 183, 193, 124, 81>>

\* Bitwise xor of two n-bit numbers
RECURSIVE BitXor(_, _, _)
BitXor(a, b, n) ==
    IF n = 0 THEN 0
    ELSE (((a % 2) + (b % 2)) % 2) + 2 * BitXor(a \div 2, b \div 2, n - 1)

\* u64::rotate_left(5)
RotateLeft5(x) ==
    [i \in 1..8 |-> ((x[i] * 32) % 256) + (x[IF i = 1 THEN 8 ELSE i - 1] \div 8)]

U64Xor(x, y) == [i \in 1..8 |-> BitXor(x[i], y[i], 8)]

\* The bytes i..8 of x * y mod 2^64, with the carry of the bytes below
RECURSIVE MulBytesFrom(_, _, _, _)
MulBytesFrom(x, y, i, carry) ==
    IF i > 8 THEN <<>>
    ELSE LET s == carry + SumSeq([j \in 1..i |-> x[j] * y[i - j + 1]])
         IN <<s % 256>> \o MulBytesFrom(x, y, i + 1, s \div 256)

\* u64::wrapping_mul
U64WrappingMul(x, y) == MulBytesFrom(x, y, 1, 0)

\* The bytes i..8 of x + y mod 2^64
RECURSIVE AddBytesFrom(_, _, _, _)
AddBytesFrom(x, y, i, carry) ==
    IF i > 8 THEN <<>>
    ELSE LET s == carry + x[i] + y[i]
         IN <<s % 256>> \o AddBytesFrom(x, y, i + 1, s \div 256)

\* u64 addition (wrapping)
U64WrappingAdd(x, y) == AddBytesFrom(x, y, 1, 0)

\* FxHasher: hash_word
hash_word(hash, word) == U64WrappingMul(U64Xor(RotateLeft5(hash), word), FX_SEED64)

----------------------------------------------------------------------------
(* Tokens.  A token is [type, bytes, num]: bytes is Token::as_bytes (empty  *)
(* for whitespace), num the count of a Whitespace token.                    *)

TT_Word == 1
TT_Number == 2
TT_IPv4 == 3
TT_Uuid == 4
TT_Punctuation == 5
TT_Whitespace == 6
TT_CatchAll == 7

WordToken(bytes) == [type |-> TT_Word, bytes |-> bytes, num |-> 0]

WhitespaceToken(n) == [type |-> TT_Whitespace, bytes |-> <<>>, num |-> n]

\* fingerprint_tokens, the hashing of the remainder (fewer than 8 tokens)
RECURSIVE HashTypes(_, _)
HashTypes(hash, tokens) ==
    IF tokens = <<>> THEN hash
    ELSE LET written == hash_word(hash, U64FromByte(Head(tokens).type))
         IN \* the hash is updated before the next token is read
            IF written = written THEN HashTypes(written, Tail(tokens)) ELSE written

\* fingerprint_tokens: chunks of 8 token types are hashed as one word, the
\* remaining token types one by one
RECURSIVE FingerprintFrom(_, _)
FingerprintFrom(hash, tokens) ==
    IF Len(tokens) >= 8
    THEN LET written == hash_word(hash, [i \in 1..8 |-> tokens[i].type])
         IN \* the hash is updated before the next chunk is read
            IF written = written
            THEN FingerprintFrom(written, SubSeq(tokens, 9, Len(tokens)))
            ELSE written
    ELSE HashTypes(hash, tokens)

fingerprint_tokens(tokens) == FingerprintFrom(U64_ZERO, tokens)

\* fingerprint_types: every token type is hashed on its own
fingerprint_types(tokens) == HashTypes(U64_ZERO, tokens)

----------------------------------------------------------------------------
(* IndexingTemplateToken with its TemplateTokenWithMeta::token_index.       *)

ConstantSlot(token_type, term_id, text, token_index) ==
    [kind |-> "Constant", token_type |-> token_type, term_id |-> term_id, text |-> text,
     column_index |-> 0, is_id_like |-> FALSE, num |-> 0, token_index |-> token_index]

\* IndexingTemplateToken::Variable
VariableSlot(column_index, token_type, is_id_like, token_index) ==
    [kind |-> "Variable", token_type |-> token_type, term_id |-> 0, text |-> <<>>,
     column_index |-> column_index, is_id_like |-> is_id_like, num |-> 0,
     token_index |-> token_index]

WhitespaceSlot(num, token_index) ==
    [kind |-> "Whitespace", token_type |-> TT_Whitespace, term_id |-> 0, text |-> <<>>,
     column_index |-> 0, is_id_like |-> FALSE, num |-> num, token_index |-> token_index]

\* IndexingTemplateToken::new_variable
new_variable(column_index, token_type, token_index) ==
    VariableSlot(column_index, token_type, FALSE, token_index)

\* get_term_id: the id of a token's bytes; a Whitespace token yields its count
get_term_id(token, tm, is_id_like) ==
    IF token.type = TT_Whitespace THEN [tm |-> tm, id |-> token.num]
    ELSE mutate_or_create(tm, token.bytes, is_id_like, FALSE)

\* The number of documents at which push evaluates is_id_like (10000 in the
\* program, scaled down so that the switch happens within the model).
ID_LIKE_CHECK_NUM_DOCS == 2

\* check_is_id_like: unique_count / total_count >= 0.98
check_is_id_like(column) == Cardinality(Range(column)) * 100 >= 98 * Len(column)

\* The promoted column back-filled with the id of the new token instead of
\* the id of the old constant.
PromotedColumn_backfills_new_id(constant_term_id, num_docs, ct) ==
    Append(Repeat(ct, num_docs), ct)

\* The promoted column without its back-fill.
PromotedColumn_without_backfill(constant_term_id, num_docs, ct) == <<ct>>

\* PrelimDocGroup::push, the column of a promoted Constant: num_docs copies
\* of the constant's term id, then the id of the new token
PromotedColumn(constant_term_id, num_docs, ct) ==
    Append(Repeat(constant_term_id, num_docs), ct)

\* slot put before the slots of the tokens that follow: [tm, tokens]
PrependSlot(slot, rest) == [tm |-> rest.tm, tokens |-> <<slot>> \o rest.tokens]

\* PrelimDocGroup::new, the map over tokens[k..]: [tm, tokens]
RECURSIVE NewSlotsFrom(_, _, _)
RECURSIVE NewConstantFrom(_, _, _)

\* The Constant slot of token k, whose term was interned with result ct,
\* followed by the slots of the tokens after it
NewConstantFrom(tokens, k, ct) ==
    \* the term is interned before the tokens after it are looked at
    IF ct = ct
    THEN PrependSlot(ConstantSlot(tokens[k].type, ct.id, tokens[k].bytes, k - 1),
                     NewSlotsFrom(tokens, k + 1, ct.tm))
    ELSE NewSlotsFrom(tokens, k + 1, ct.tm)

NewSlotsFrom(tokens, k, tm) ==
    IF k > Len(tokens) THEN [tm |-> tm, tokens |-> <<>>]
    ELSE IF tokens[k].type = TT_Whitespace
         THEN PrependSlot(WhitespaceSlot(tokens[k].num, k - 1),
                          NewSlotsFrom(tokens, k + 1, tm))
         ELSE NewConstantFrom(tokens, k, get_term_id(tokens[k], tm, FALSE))

\* PrelimDocGroup::new that leaves the first line uncounted.
PrelimDocGroup_new_uncounted(tokens, tm) ==
    LET r == NewSlotsFrom(tokens, 1, tm)
    IN [tm |-> r.tm,
        group |-> [template |-> [template_id |-> 0, num_docs |-> 0, tokens |-> r.tokens],
                   columns  |-> <<>>,
                   num_docs |-> 0]]

\* The group of a first line whose slots are r.tokens
GroupOfFirstLine(r) ==
    [tm |-> r.tm,
     group |-> [template |-> [template_id |-> 0, num_docs |-> 0, tokens |-> r.tokens],
                columns  |-> <<>>,
                num_docs |-> 1]]

\* PrelimDocGroup::new: [tm, group]
PrelimDocGroup_new(tokens, tm) == GroupOfFirstLine(NewSlotsFrom(tokens, 1, tm))

\* PrelimDocGroup::push, the loop over the template slots k..: s is
\* [tm, tokens, columns], num_docs the group's num_docs before the push
RECURSIVE PushSlotsFrom(_, _, _, _)
RECURSIVE PromoteSlot(_, _, _, _, _)
RECURSIVE PushVariable(_, _, _, _, _, _)

\* push, the Constant arm when the token differs: ct is the result of
\* interning the token; the slot becomes a Variable with a new column
PromoteSlot(s, k, tokens, num_docs, ct) ==
    PushSlotsFrom(
        [tm |-> ct.tm,
         tokens |-> [s.tokens EXCEPT ![k] =
             new_variable(Len(s.columns), tokens[s.tokens[k].token_index + 1].type,
                          s.tokens[k].token_index)],
         columns |-> Append(s.columns,
                            PromotedColumn(s.tokens[k].term_id, num_docs, ct.id))],
        k + 1, tokens, num_docs)

\* The Variable arm with the check of is_id_like one push late.
PushVariable_checks_late(s, k, tokens, num_docs, tm, column) ==
    PushSlotsFrom(
        [tm |-> tm,
         tokens |-> IF num_docs = ID_LIKE_CHECK_NUM_DOCS + 1
                    THEN [s.tokens EXCEPT ![k].is_id_like = check_is_id_like(column)]
                    ELSE s.tokens,
         columns |-> [s.columns EXCEPT ![s.tokens[k].column_index + 1] = column]],
        k + 1, tokens, num_docs)

\* push, the Variable arm: tm is the term map after interning the token,
\* column the slot's column with the token's id appended
PushVariable(s, k, tokens, num_docs, tm, column) ==
    PushSlotsFrom(
        [tm |-> tm,
         tokens |-> IF num_docs = ID_LIKE_CHECK_NUM_DOCS
                    THEN [s.tokens EXCEPT ![k].is_id_like = check_is_id_like(column)]
                    ELSE s.tokens,
         columns |-> [s.columns EXCEPT ![s.tokens[k].column_index + 1] = column]],
        k + 1, tokens, num_docs)

\* push, the Variable arm: r is the result of interning the token
AppendToColumn(s, k, tokens, num_docs, r) ==
    PushVariable(s, k, tokens, num_docs, r.tm,
                 Append(s.columns[s.tokens[k].column_index + 1], r.id))

PushSlotsFrom(s, k, tokens, num_docs) ==
    IF k > Len(s.tokens) THEN s
    ELSE CASE s.tokens[k].kind = "Constant" ->
                IF s.tokens[k].text # tokens[s.tokens[k].token_index + 1].bytes
                THEN PromoteSlot(s, k, tokens, num_docs,
                                 get_term_id(tokens[s.tokens[k].token_index + 1], s.tm, FALSE))
                ELSE PushSlotsFrom(s, k + 1, tokens, num_docs)
           [] s.tokens[k].kind = "Variable" ->
                AppendToColumn(s, k, tokens, num_docs,
                               get_term_id(tokens[s.tokens[k].token_index + 1], s.tm,
                                           s.tokens[k].is_id_like))
           [] OTHER -> PushSlotsFrom(s, k + 1, tokens, num_docs)

\* The group after a push whose loop over the slots ended in r
GroupAfterPush(group, r) ==
    [tm |-> r.tm,
     group |-> [group EXCEPT !.template.tokens = r.tokens,
                             !.columns = r.columns,
                             !.num_docs = group.num_docs + 1]]

\* PrelimDocGroup::push: [tm, group]
PrelimDocGroup_push(group, tokens, tm) ==
    GroupAfterPush(group,
                   PushSlotsFrom([tm |-> tm, tokens |-> group.template.tokens,
                                  columns |-> group.columns], 1, tokens, group.num_docs))

----------------------------------------------------------------------------
(* The lines of the model.  A line is the token sequence the tokenizer      *)
(* yields for it.                                                           *)

B_b == <<98>>
B_c == <<99>>
B_aa == <<97, 97>>
B_d == <<100>>

\* "", "b", "c", "b c", "b aa", "b d", "c aa", "c  c"
Lines ==
    { <<>>,
      <<WordToken(B_b)>>,
      <<WordToken(B_c)>>,
      <<WordToken(B_b), WhitespaceToken(1), WordToken(B_c)>>,
      <<WordToken(B_b), WhitespaceToken(1), WordToken(B_aa)>>,
      <<WordToken(B_b), WhitespaceToken(1), WordToken(B_d)>>,
      <<WordToken(B_c), WhitespaceToken(1), WordToken(B_aa)>>,
      <<WordToken(B_c), WhitespaceToken(2), WordToken(B_c)>> }

NumberToken(bytes) == [type |-> TT_Number, bytes |-> bytes, num |-> 0]

B_7 == <<55>>

\* The lines whose templates are merged and split:
\* "b", "7", "b c", "c b", "b 7", "c  7"
PatternLines ==
    { <<WordToken(B_b)>>,
      <<NumberToken(B_7)>>,
      <<WordToken(B_b), WhitespaceToken(1), WordToken(B_c)>>,
      <<WordToken(B_c), WhitespaceToken(1), WordToken(B_b)>>,
      <<WordToken(B_b), WhitespaceToken(1), NumberToken(B_7)>>,
      <<WordToken(B_c), WhitespaceToken(2), NumberToken(B_7)>> }

IPv4Token(bytes) == [type |-> TT_IPv4, bytes |-> bytes, num |-> 0]

UuidToken(bytes) == [type |-> TT_Uuid, bytes |-> bytes, num |-> 0]

PunctuationToken(bytes) == [type |-> TT_Punctuation, bytes |-> bytes, num |-> 0]

\* "1.2.3.4"
B_ipv4 == <<49, 46, 50, 46, 51, 46, 52>>

\* "e23e4567-e89b-12d3-a456-426614174000"
B_uuid ==
    <<101, 50, 51, 101, 52, 53, 54, 55, 45, 101, 56, 57, 98, 45, 49, 50, 100, 51, 45,
      97, 52, 53, 54, 45, 52, 50, 54, 54, 49, 52, 49, 55, 52, 48, 48, 48>>

\* "#"
B_hash == <<35>>

\* The tokens of " 1.2.3.4# #b b #1.2.3.4#1.2.3.4 #": 15 tokens
Line_salted ==
    <<WhitespaceToken(1), IPv4Token(B_ipv4), PunctuationToken(B_hash), WhitespaceToken(1),
      PunctuationToken(B_hash), WordToken(B_b), WhitespaceToken(1), WordToken(B_b),
      WhitespaceToken(1), PunctuationToken(B_hash), IPv4Token(B_ipv4),
      PunctuationToken(B_hash), IPv4Token(B_ipv4), WhitespaceToken(1),
      PunctuationToken(B_hash)>>

\* The tokens of "b b b b b b b b": 15 tokens
Line_same_length ==
    <<WordToken(B_b), WhitespaceToken(1), WordToken(B_b), WhitespaceToken(1),
      WordToken(B_b), WhitespaceToken(1), WordToken(B_b), WhitespaceToken(1),
      WordToken(B_b), WhitespaceToken(1), WordToken(B_b), WhitespaceToken(1),
      WordToken(B_b), WhitespaceToken(1), WordToken(B_b)>>

\* The tokens of " 1.2.3.4#U#b#U#b#U#7 #U U#", U the UUID above: 20 tokens
Line_replaced ==
    <<WhitespaceToken(1), IPv4Token(B_ipv4), PunctuationToken(B_hash), UuidToken(B_uuid),
      PunctuationToken(B_hash), WordToken(B_b), PunctuationToken(B_hash),
      UuidToken(B_uuid), PunctuationToken(B_hash), WordToken(B_b),
      PunctuationToken(B_hash), UuidToken(B_uuid), PunctuationToken(B_hash),
      NumberToken(B_7), WhitespaceToken(1), PunctuationToken(B_hash), UuidToken(B_uuid),
      WhitespaceToken(1), UuidToken(B_uuid), PunctuationToken(B_hash)>>

\* Three lines: fingerprint_tokens of the third is fingerprint_types of the
\* first plus one, and the second has as many tokens as the first
CollisionLines == {Line_salted, Line_same_length, Line_replaced}

\* fingerprint_tokens of every line of the model
FingerprintOfLine ==
    [tokens \in Lines \cup PatternLines \cup CollisionLines |-> fingerprint_tokens(tokens)]

----------------------------------------------------------------------------
(* DocGroups: groups is a function from Fingerprint to PrelimDocGroup.      *)

\* DocGroups::new
NewDocGroups == [groups |-> <<>>, next_group_salt |-> 0]

\* FxHashMap::insert
MapInsert(map, key, value) ==
    [k \in DOMAIN map \cup {key} |-> IF k = key THEN value ELSE map[k]]

\* The groups with the group r.group stored under id: [tm, doc_groups, id]
GroupStored(dg, id, r) ==
    [tm |-> r.tm, id |-> id,
     doc_groups |-> [dg EXCEPT !.groups = MapInsert(@, id, r.group)]]

\* DocGroups::insert: [tm, doc_groups, id].  The fingerprint of the line is
\* fingerprint_tokens(tokens), read from the table computed once.
DocGroups_insert(dg, tokens, tm) ==
    IF FingerprintOfLine[tokens] \in DOMAIN dg.groups
    THEN GroupStored(dg, FingerprintOfLine[tokens],
                     PrelimDocGroup_push(dg.groups[FingerprintOfLine[tokens]], tokens, tm))
    ELSE GroupStored(dg, FingerprintOfLine[tokens], PrelimDocGroup_new(tokens, tm))

----------------------------------------------------------------------------
(* assign_template_ids and term_id_idx_to_template_ids.                     *)

\* The sequences that enumerate the set s once each: the orders in which a
\* hash map may visit its entries
RECURSIVE Orders(_)
Orders(s) ==
    IF s = {} THEN {<<>>}
    ELSE UNION {{<<x>> \o rest : rest \in Orders(s \ {x})} : x \in s}

\* assign_template_ids: doc_groups.values_mut().enumerate(), the groups in
\* the order the map visits them, each with its template_id and num_docs
assign_template_ids_reversed(groups, order) ==
    [i \in DOMAIN order |->
        [groups[order[i]] EXCEPT !.template.template_id = Len(order) - i,
                                 !.template.num_docs = groups[order[i]].num_docs]]

assign_template_ids(groups, order) ==
    [i \in DOMAIN order |->
        [groups[order[i]] EXCEPT !.template.template_id = i - 1,
                                 !.template.num_docs = groups[order[i]].num_docs]]

\* PrelimDocGroup::iter_columns: the columns of the Variable slots, in
\* template order
RECURSIVE IterColumnsFrom(_, _)
IterColumnsFrom(group, k) ==
    IF k > Len(group.template.tokens) THEN <<>>
    ELSE LET slot == group.template.tokens[k]
         IN (IF slot.kind = "Variable" THEN <<group.columns[slot.column_index + 1]>>
             ELSE <<>>) \o IterColumnsFrom(group, k + 1)

iter_columns_by_column_index(group) == group.columns

iter_columns(group) == IterColumnsFrom(group, 1)

\* SingleOrHashSet::default
SingleNone == [kind |-> "Single", opt |-> NoValue, set |-> {}]

\* SingleOrHashSet::insert
SingleOrHashSet_insert(s, template_id) ==
    IF s.kind = "Single"
    THEN IF s.opt # NoValue
         THEN IF s.opt # template_id
              THEN [kind |-> "HashSet", opt |-> NoValue, set |-> {s.opt, template_id}]
              ELSE s
         ELSE [s EXCEPT !.opt = template_id]
    ELSE [s EXCEPT !.set = @ \cup {template_id}]

\* The elements of a set of numbers in ascending order
RECURSIVE SortedSeqOfSet(_)
SortedSeqOfSet(s) ==
    IF s = {} THEN <<>>
    ELSE LET m == CHOOSE x \in s : \A y \in s : x <= y
         IN <<m>> \o SortedSeqOfSet(s \ {m})

\* SingleOrHashSet::copy_into_vec.  The order in which a HashSet is copied
\* is the set's; every reader sorts the vector before using it.
copy_into_vec(s, vec) ==
    IF s.kind = "Single"
    THEN IF s.opt # NoValue THEN Append(vec, s.opt) ELSE vec
    ELSE vec \o SortedSeqOfSet(s.set)

\* dedup_term_ids_iter: drops an id equal to the one right before it
RECURSIVE dedup_term_ids_iter(_)
dedup_term_ids_iter(column) ==
    IF Len(column) <= 1 THEN column
    ELSE LET front == dedup_term_ids_iter(SubSeq(column, 1, Len(column) - 1))
         IN IF column[Len(column)] = column[Len(column) - 1] THEN front
            ELSE Append(front, column[Len(column)])

\* The column length above which term_id_idx_to_template_ids marks the ids
\* in a bit vector (500_000 in the program, scaled down so that both paths
\* are taken within the model).
LARGE_COLUMN_LEN == 2

\* insert(template_id) into the slot of every term id of ids
RECURSIVE InsertForIds(_, _, _)
InsertForIds(term_id_to_templates, ids, template_id) ==
    IF ids = <<>> THEN term_id_to_templates
    ELSE InsertForIds(
           [term_id_to_templates EXCEPT ![Head(ids) + 1] =
                SingleOrHashSet_insert(@, template_id)],
           Tail(ids), template_id)

\* term_id_idx_to_template_ids, large column: marked_termids[term_id] = true
\* for every term id of the column
MarkColumn(marked_termids, column) ==
    [t \in DOMAIN marked_termids |-> marked_termids[t] \/ (t - 1) \in Range(column)]

\* term_id_idx_to_template_ids, large column: insert(template_id) for every
\* marked term id
InsertForMarked(term_id_to_templates, marked_termids, template_id) ==
    [t \in DOMAIN term_id_to_templates |->
        IF marked_termids[t]
        THEN SingleOrHashSet_insert(term_id_to_templates[t], template_id)
        ELSE term_id_to_templates[t]]

\* The marks left as they are after a large column.
fill_false_skipped(marked_termids) == marked_termids

\* marked_termids.fill(false)
fill_false(marked_termids) == [t \in DOMAIN marked_termids |-> FALSE]

\* term_id_idx_to_template_ids, the branch of a large column;
\* s is [term_id_to_templates, marked_termids]
MarkPath(s, column, template_id) ==
    [term_id_to_templates |->
         InsertForMarked(s.term_id_to_templates, MarkColumn(s.marked_termids, column),
                         template_id),
     marked_termids |-> fill_false(MarkColumn(s.marked_termids, column))]

\* term_id_idx_to_template_ids, the branch of the other columns
DedupPath(s, column, template_id) ==
    [term_id_to_templates |->
         InsertForIds(s.term_id_to_templates, dedup_term_ids_iter(column), template_id),
     marked_termids |-> s.marked_termids]

\* term_id_idx_to_template_ids, the body of the loop over the columns
PostColumn(s, column, template_id) ==
    IF Len(column) > LARGE_COLUMN_LEN
    THEN MarkPath(s, column, template_id)
    ELSE DedupPath(s, column, template_id)

RECURSIVE PostColumnsFrom(_, _, _, _)
PostColumnsFrom(s, columns, c, template_id) ==
    IF c > Len(columns) THEN s
    ELSE PostColumnsFrom(PostColumn(s, columns[c], template_id), columns, c + 1, template_id)

RECURSIVE PostGroupsFrom(_, _, _)
PostGroupsFrom(s, values, i) ==
    IF i > Len(values) THEN s
    ELSE PostGroupsFrom(PostColumnsFrom(s, iter_columns(values[i]), 1, i - 1), values, i + 1)

\* IndexingTermmap::num_terms: equals next_term_id
num_terms(tm) == tm.next_term_id

\* term_id_idx_to_template_ids at its return: the postings and the mark array
PostingsAndMarks(values, tm) ==
    PostGroupsFrom([term_id_to_templates |-> [t \in 1..num_terms(tm) |-> SingleNone],
                    marked_termids |-> [t \in 1..num_terms(tm) |-> FALSE]],
                   values, 1)

\* term_id_idx_to_template_ids: for every old term id the templates whose
\* columns hold it; values are the groups in the order the map visits them
term_id_idx_to_template_ids(values, tm) == PostingsAndMarks(values, tm).term_id_to_templates

----------------------------------------------------------------------------
(* write_dictionary_and_generate_mapping.                                   *)

\* Insertion of e into a sequence sorted by bytes, after the entries that do
\* not compare greater
RECURSIVE InsertSorted(_, _)
InsertSorted(sorted, e) ==
    IF sorted = <<>> THEN <<e>>
    ELSE IF BytesLess(e.bytes, Head(sorted).bytes) THEN <<e>> \o sorted
         ELSE <<Head(sorted)>> \o InsertSorted(Tail(sorted), e)

\* sort_unstable_by(|a, b| a.0.cmp(b.0)); entries with equal bytes stay in
\* the order of iter(), one of the orders the sort may produce
RECURSIVE SortByBytes(_)
SortByBytes(terms) ==
    IF terms = <<>> THEN <<>>
    ELSE InsertSorted(SortByBytes(SubSeq(terms, 1, Len(terms) - 1)), terms[Len(terms)])

\* A run that never continues: every sorted entry is a run of its own.
RunEnd_single(sorted, i) == i

\* The inner while loop's extent: the last index j >= i of the run of
\* entries whose bytes equal those of entry i
RECURSIVE RunEnd(_, _)
RunEnd(sorted, i) ==
    IF i < Len(sorted) /\ sorted[i + 1].bytes = sorted[i].bytes
    THEN RunEnd(sorted, i + 1)
    ELSE i

\* sort_unstable followed by dedup
SortDedup(vec) == SortedSeqOfSet(Range(vec))

\* Insertion of x into an ascending vector
RECURSIVE InsertAscending(_, _)
InsertAscending(sorted, x) ==
    IF sorted = <<>> THEN <<x>>
    ELSE IF x <= Head(sorted) THEN <<x>> \o sorted
         ELSE <<Head(sorted)>> \o InsertAscending(Tail(sorted), x)

\* sort_unstable: ascending, equal elements kept
RECURSIVE sort_unstable(_)
sort_unstable(vec) ==
    IF vec = <<>> THEN <<>>
    ELSE InsertAscending(sort_unstable(Tail(vec)), Head(vec))

\* The entries i..j of the run: [old_to_new, template_ids] after mapping
\* each old id to new_id and gathering its templates
RECURSIVE MapRun(_, _, _, _, _, _)
MapRun(sorted, i, j, new_id, s, term_id_to_template_id) ==
    IF i > j THEN s
    ELSE LET old_id == sorted[i].id
         IN MapRun(sorted, i + 1, j, new_id,
                   [old_to_new   |-> [s.old_to_new EXCEPT ![old_id + 1] = new_id],
                    template_ids |-> copy_into_vec(term_id_to_template_id[old_id + 1],
                                                   s.template_ids)],
                   term_id_to_template_id)

\* A new id spent on every run, also on one that is not inserted.
next_new_id_counts_skipped(new_id, template_ids) == new_id + 1

\* new_id after a run: unchanged when the run has no template and is skipped
next_new_id(new_id, template_ids) ==
    IF template_ids = <<>> THEN new_id ELSE new_id + 1

\* The while loop over the sorted terms from entry i on:
\* s is [old_to_new, dictionary, new_id]
RECURSIVE WalkSorted(_, _, _, _)
WalkSorted(sorted, i, s, term_id_to_template_id) ==
    IF i > Len(sorted) THEN s
    ELSE LET j   == RunEnd(sorted, i)
             run == MapRun(sorted, i, j, s.new_id,
                           [old_to_new |-> s.old_to_new, template_ids |-> <<>>],
                           term_id_to_template_id)
             template_ids == IF j > i THEN SortDedup(run.template_ids)
                             ELSE IF Len(run.template_ids) > 1
                             THEN sort_unstable(run.template_ids)
                             ELSE run.template_ids
         IN WalkSorted(sorted, j + 1,
                [old_to_new |-> run.old_to_new,
                 dictionary |-> IF template_ids = <<>> THEN s.dictionary
                                ELSE Append(s.dictionary,
                                            [key |-> sorted[i].bytes,
                                             template_ids |-> template_ids]),
                 new_id     |-> next_new_id(s.new_id, template_ids)],
                term_id_to_template_id)

\* write_dictionary_and_generate_mapping: [old_to_new, dictionary, new_id];
\* the dictionary is the sequence of the builder's inserts
write_dictionary_and_generate_mapping(tm, term_id_to_template_id) ==
    LET max_old_id == Termmap_len(tm)
    IN WalkSorted(SortByBytes(Termmap_iter(tm)), 1,
                  [old_to_new |-> [o \in 1..(max_old_id + 1) |-> 0],
                   dictionary |-> <<>>,
                   new_id     |-> 0],
                  term_id_to_template_id)

----------------------------------------------------------------------------
(* write_templates, write_column_and_remap and the reader of the columns.   *)

\* From<&IndexingTemplateToken> for TemplateToken
TemplateToken_from(slot) ==
    CASE slot.kind = "Constant"   -> [kind |-> "Constant", bytes |-> slot.text, num |-> 0]
      [] slot.kind = "Variable"   -> [kind |-> "Variable", bytes |-> <<>>, num |-> 0]
      [] slot.kind = "Whitespace" -> [kind |-> "Whitespace", bytes |-> <<>>, num |-> slot.num]

\* From<&IndexingTemplate> for TemplateWithMeta
TemplateWithMeta_from(template) ==
    [num_docs    |-> template.num_docs,
     template_id |-> template.template_id,
     parts       |-> [k \in DOMAIN template.tokens |-> TemplateToken_from(template.tokens[k])]]

\* write_templates followed by read_templates: the postcard vector holds
\* one TemplateWithMeta per group, in the order the map visits them
write_templates(values) ==
    [i \in DOMAIN values |-> TemplateWithMeta_from(values[i].template)]

\* The little-endian bytes of the remapped ids of one column
RECURSIVE RemapColumn(_, _)
RemapColumn(column, old_to_new_id_map) ==
    IF column = <<>> THEN <<>>
    ELSE u32_to_le_bytes(old_to_new_id_map[Head(column) + 1])
         \o RemapColumn(Tail(column), old_to_new_id_map)

RECURSIVE RemapColumnsFrom(_, _, _)
RemapColumnsFrom(columns, c, old_to_new_id_map) ==
    IF c > Len(columns) THEN <<>>
    ELSE RemapColumn(columns[c], old_to_new_id_map)
         \o RemapColumnsFrom(columns, c + 1, old_to_new_id_map)

\* write_column_and_remap: the byte buffer of the group's file.  The zstd
\* stream decodes to the bytes that were encoded; the file is kept decoded.
write_column_and_remap(group, old_to_new_id_map) ==
    RemapColumnsFrom(iter_columns(group), 1, old_to_new_id_map)

\* decompress_column, the loop over chunks_exact(4) from byte offset pos:
\* s is [columns, terms]
RECURSIVE DecodeChunksFrom(_, _, _, _)
DecodeChunksFrom(data, pos, s, num_docs) ==
    IF pos + 4 > Len(data) THEN s.columns
    ELSE LET term_id == u32_from_le_bytes(SubSeq(data, pos + 1, pos + 4))
             terms   == Append(s.terms, term_id)
         IN DecodeChunksFrom(data, pos + 4,
                IF Len(terms) = num_docs
                THEN [columns |-> Append(s.columns, terms), terms |-> <<>>]
                ELSE [columns |-> s.columns, terms |-> terms],
                num_docs)

\* decompress_column: the columns of a template's file
decompress_column(data, num_docs) ==
    DecodeChunksFrom(data, 0, [columns |-> <<>>, terms |-> <<>>], num_docs)

\* The predicates handed to search_in_zstd_column: |_| true and
\* |hit| term_id == hit
MatchAll == [all |-> TRUE, term_id |-> 0]

MatchTerm(term_id) == [all |-> FALSE, term_id |-> term_id]

match_fn(m, hit) == m.all \/ m.term_id = hit

\* Column::iter().enumerate().filter_map: the doc ids of one column whose
\* term matches, from row docid on
RECURSIVE ColumnDocIdsFrom(_, _, _)
ColumnDocIdsFrom(column, docid, m) ==
    IF docid >= Len(column) THEN <<>>
    ELSE (IF match_fn(m, column[docid + 1]) THEN <<docid>> ELSE <<>>)
         \o ColumnDocIdsFrom(column, docid + 1, m)

\* Columns::get_doc_ids: flat_map over the columns from column c on
RECURSIVE get_doc_ids(_, _, _)
get_doc_ids(columns, c, m) ==
    IF c > Len(columns) THEN <<>>
    ELSE ColumnDocIdsFrom(columns[c], 0, m) \o get_doc_ids(columns, c + 1, m)

\* Columns::get_term_ids: the term of every column at row doc
get_term_ids(columns, doc) ==
    [c \in DOMAIN columns |-> columns[c][doc + 1]]

\* The max_hits that get_doc_from_templates passes
MAX_HITS == 10

\* get_template_path: the name of the column file of a template, the number
\* n standing for "n.col"
get_template_path(template_id) == template_id

\* search_in_zstd_column, the first loop: the doc ids that get_doc_ids
\* yields, up to max_hits of them
documents_ids_hit(templates, column_files, m, template_id, max_hits) ==
    LET num_docs == templates[template_id + 1].num_docs
        columns  == decompress_column(column_files[get_template_path(template_id)], num_docs)
        doc_ids  == get_doc_ids(columns, 1, m)
    IN SubSeq(doc_ids, 1, Min(Len(doc_ids), max_hits))

\* search_in_zstd_column: the term ids of each document hit
search_in_zstd_column(templates, column_files, m, template_id, max_hits) ==
    LET num_docs == templates[template_id + 1].num_docs
        columns  == decompress_column(column_files[get_template_path(template_id)], num_docs)
        hit      == documents_ids_hit(templates, column_files, m, template_id, max_hits)
    IN [h \in DOMAIN hit |-> get_term_ids(columns, hit[h])]

----------------------------------------------------------------------------
(* Dict, Template::check_match, Template::reconstruct and Searcher.         *)

\* Dictionary::term_ord: the ordinal of the key equal to term, or NoValue
term_ord(dictionary, term) ==
    IF \E i \in DOMAIN dictionary : dictionary[i].key = term
    THEN (CHOOSE i \in DOMAIN dictionary : dictionary[i].key = term) - 1
    ELSE NoValue

\* Dict::search_single_term
search_single_term(dictionary, term) ==
    LET ord == term_ord(dictionary, term)
    IN IF ord # NoValue
       THEN [found |-> TRUE, term_id |-> ord, template_ids |-> dictionary[ord + 1].template_ids]
       ELSE [found |-> FALSE, term_id |-> 0, template_ids |-> <<>>]

\* What reconstruct yields where the program panics
Panic == <<-1>>

\* Dict::get_term_for_ord followed by expect("Term ID out of bounds")
get_term_for_ord(dictionary, ord) ==
    IF ord < Len(dictionary) THEN dictionary[ord + 1].key ELSE Panic

\* TemplateToken::check_match
TemplateToken_check_match(part, term) ==
    CASE part.kind = "Constant" -> IF term = part.bytes THEN "Full" ELSE "NoMatch"
      [] part.kind = "Variable" -> "VariableMayMatch"
      [] OTHER                  -> IF term = <<>> THEN "Full" ELSE "NoMatch"

\* Template::check_match: Full if any part matches fully, else
\* VariableMayMatch if any part is a Variable
check_match(parts, term) ==
    IF \E k \in DOMAIN parts : TemplateToken_check_match(parts[k], term) = "Full"
    THEN "Full"
    ELSE IF \E k \in DOMAIN parts : TemplateToken_check_match(parts[k], term) = "VariableMayMatch"
         THEN "VariableMayMatch"
         ELSE "NoMatch"

\* Template::reconstruct, the loop over the parts from part k on
RECURSIVE ReconstructFrom(_, _, _, _, _)
ReconstructFrom(parts, k, term_ids, term_id_idx, dictionary) ==
    IF k > Len(parts) THEN <<>>
    ELSE LET part == parts[k]
         IN CASE part.kind = "Constant" ->
                   part.bytes \o ReconstructFrom(parts, k + 1, term_ids, term_id_idx, dictionary)
              [] part.kind = "Variable" ->
                   IF term_id_idx >= Len(term_ids) THEN Panic
                   ELSE get_term_for_ord(dictionary, term_ids[term_id_idx + 1])
                        \o ReconstructFrom(parts, k + 1, term_ids, term_id_idx + 1, dictionary)
              [] OTHER ->
                   Repeat(32, part.num)
                   \o ReconstructFrom(parts, k + 1, term_ids, term_id_idx, dictionary)

\* Template::reconstruct
reconstruct(parts, term_ids, dictionary) == ReconstructFrom(parts, 1, term_ids, 0, dictionary)

\* Searcher::get_potential_templates: the ids of the templates that do not
\* answer NoMatch
get_potential_templates(templates, query) ==
    {t \in 0..(Len(templates) - 1) : check_match(templates[t + 1].parts, query) # "NoMatch"}

\* Searcher::get_doc_from_templates, the body of the loop for one template:
\* the Docs it adds
DocsOfTemplate(idx, template_id, sr, query) ==
    LET match_result == check_match(idx.templates[template_id + 1].parts, query)
        docs == IF match_result = "Full"
                THEN search_in_zstd_column(idx.templates, idx.column_files, MatchAll,
                                           template_id, MAX_HITS)
                ELSE IF sr.found /\ template_id \in Range(sr.template_ids)
                     THEN search_in_zstd_column(idx.templates, idx.column_files,
                                                MatchTerm(sr.term_id), template_id, MAX_HITS)
                     ELSE <<>>
    IN [d \in DOMAIN docs |-> [template_id |-> template_id, term_ids |-> docs[d]]]

\* Searcher::get_doc_from_templates: visit is the order in which the map of
\* matching templates is iterated
RECURSIVE get_doc_from_templates(_, _, _, _)
get_doc_from_templates(idx, visit, sr, query) ==
    IF visit = <<>> THEN <<>>
    ELSE DocsOfTemplate(idx, Head(visit), sr, query)
         \o get_doc_from_templates(idx, Tail(visit), sr, query)

\* Searcher::search
search(idx, query, visit) ==
    get_doc_from_templates(idx, visit, search_single_term(idx.dictionary, query), query)

\* Searcher::retrieve_doc
retrieve_doc(idx, docs) ==
    [d \in DOMAIN docs |->
        reconstruct(idx.templates[docs[d].template_id + 1].parts, docs[d].term_ids,
                    idx.dictionary)]

----------------------------------------------------------------------------
(* preliminary_index: one step of the loop over the lines.                  *)

\* The number of lines ingested.
MaxLines == 5

\* No index written yet
NoIndex ==
    [written |-> FALSE, order |-> <<>>, templates |-> <<>>, dictionary |-> <<>>,
     column_files |-> <<>>, old_to_new |-> <<>>, term_id_to_templates |-> <<>>]

\* No search made yet
NoSearch == [searched |-> FALSE, query |-> <<>>, docs |-> <<>>]

\* Tokenizer::new
Tokenizer_new(input) == [input |-> input, pos |-> 0, token_count |-> 0, tokens |-> <<>>]

\* Neither merge_templates nor split_templates called yet
NoPatterns ==
    [op |-> "none", count |-> 0, groups |-> <<>>, tm |-> NewTermmap, merged |-> <<>>,
     moves |-> <<>>]

Init ==
    /\ termmap = NewTermmap
    /\ calls = <<>>
    /\ doc_groups = NewDocGroups
    /\ arrival = <<>>
    /\ lines_consumed = 0
    /\ index = NoIndex
    /\ search_result = NoSearch
    /\ patterns = NoPatterns
    /\ tokenizer = Tokenizer_new(<<>>)
    /\ hashmap = NoHashMap

\* The state after DocGroups::insert returned r for the line
Inserted(tokens, r) ==
    /\ termmap' = r.tm
    /\ doc_groups' = r.doc_groups
    /\ arrival' = MapInsert(arrival, r.id,
                      IF r.id \in DOMAIN arrival THEN Append(arrival[r.id], tokens)
                      ELSE <<tokens>>)

\* The body of the loop of preliminary_index for one line
IngestStep(tokens) ==
    /\ ~index.written
    /\ Inserted(tokens, DocGroups_insert(doc_groups, tokens, termmap))
    /\ lines_consumed' = lines_consumed + 1
    /\ UNCHANGED <<calls, index, search_result, patterns, tokenizer, hashmap>>

IngestLine(tokens) == lines_consumed < MaxLines /\ IngestStep(tokens)

Next == \E tokens \in Lines : IngestLine(tokens)

Spec == Init /\ [][Next]_vars

----------------------------------------------------------------------------
(* IndexWriter::index followed by searches: the lines are ingested, then    *)
(* template ids are assigned, the dictionary, the templates and the column  *)
(* files are written, and the Searcher answers single-term queries.         *)

\* The number of lines of an index.
MaxIndexLines == 4

\* The terms searched
Queries == {B_b, B_c, B_aa, B_d}

IndexLine(tokens) == lines_consumed < MaxIndexLines /\ IngestStep(tokens)

\* The loop of write_column_and_remap over values[i..]: every group creates
\* the file named after its template id, over any file of that name
RECURSIVE WriteColumnsFrom(_, _, _, _)
WriteColumnsFrom(folder, values, i, old_to_new_id_map) ==
    IF i > Len(values) THEN folder
    ELSE LET name == get_template_path(values[i].template.template_id)
             data == write_column_and_remap(values[i], old_to_new_id_map)
         IN WriteColumnsFrom([n \in DOMAIN folder \cup {name} |->
                                 IF n = name THEN data ELSE folder[n]],
                             values, i + 1, old_to_new_id_map)

\* The files of the index: the dictionary of written, the templates and the
\* column file of every group
FilesWritten(order, values, term_id_to_templates, written) ==
    /\ doc_groups' = [doc_groups EXCEPT !.groups =
                          [k \in DOMAIN doc_groups.groups |->
                              values[CHOOSE i \in DOMAIN order : order[i] = k]]]
    /\ index' = [written      |-> TRUE,
                 order        |-> order,
                 templates    |-> write_templates(values),
                 dictionary   |-> written.dictionary,
                 column_files |-> WriteColumnsFrom(<<>>, values, 1, written.old_to_new),
                 old_to_new   |-> written.old_to_new,
                 term_id_to_templates |-> term_id_to_templates]

\* IndexWriter::index from the call of write_dictionary_and_generate_mapping
PostingsBuilt(order, values, term_id_to_templates) ==
    FilesWritten(order, values, term_id_to_templates,
                 write_dictionary_and_generate_mapping(termmap, term_id_to_templates))

\* IndexWriter::index from the call of term_id_idx_to_template_ids; values
\* are the groups with their template ids
TemplateIdsAssigned(order, values) ==
    PostingsBuilt(order, values, term_id_idx_to_template_ids(values, termmap))

\* IndexWriter::index after the last line: assign_template_ids,
\* term_id_idx_to_template_ids, write_dictionary_and_generate_mapping,
\* write_templates and write_column_and_remap for every group; order is the
\* order in which doc_groups.values() visits the groups
WriteIndex(order) ==
    /\ ~index.written
    /\ TemplateIdsAssigned(order, assign_template_ids(doc_groups.groups, order))
    /\ UNCHANGED <<termmap, calls, arrival, lines_consumed, search_result, patterns, tokenizer, hashmap>>

\* Searcher::search(query); visit is the order in which the map of matching
\* templates is iterated
Search(query, visit) ==
    /\ index.written
    /\ search_result' = [searched |-> TRUE, query |-> query,
                         docs |-> search(index, query, visit)]
    /\ UNCHANGED <<termmap, calls, doc_groups, arrival, lines_consumed, index, patterns, tokenizer, hashmap>>

IndexLine_step == \E tokens \in Lines : IndexLine(tokens)

WriteIndex_step == \E order \in Orders(DOMAIN doc_groups.groups) : WriteIndex(order)

Search_step ==
    \E query \in Queries :
        \E visit \in Orders(get_potential_templates(index.templates, query)) :
            Search(query, visit)

NextIndex == IndexLine_step \/ WriteIndex_step \/ Search_step

SpecIndex == Init /\ [][NextIndex]_vars

----------------------------------------------------------------------------
(* Claims about ingestion, checked under Spec.                              *)

Groups == doc_groups.groups

\* The byte strings that iter() associates with a term id
TermBytesOfId(tm, id) == {e.bytes : e \in {x \in Range(Termmap_iter(tm)) : x.id = id}}

\* The column of a Variable slot
ColumnOf(group, slot) == group.columns[slot.column_index + 1]

C2_ColumnsHaveNumDocsEntries ==
    \A id \in DOMAIN Groups :
        \A c \in DOMAIN Groups[id].columns : Len(Groups[id].columns[c]) = Groups[id].num_docs

\* A group with two columns created by different lines, in the state right
\* after the push that promoted the second one.
C2_Witness ==
    \E id \in DOMAIN Groups :
        LET group == Groups[id]
            n     == group.num_docs
        IN /\ Len(group.columns) = 2 /\ n >= 3
           /\ group.columns[1][1] # group.columns[1][2]
           /\ \A i \in 1..(n - 1) : group.columns[2][i] = group.columns[2][1]
           /\ group.columns[2][n] # group.columns[2][1]

RECURSIVE SumNumDocs(_, _)
SumNumDocs(groups, ids) ==
    IF ids = {} THEN 0
    ELSE LET id == CHOOSE x \in ids : TRUE
         IN groups[id].num_docs + SumNumDocs(groups, ids \ {id})

\* C3: the num_docs of all groups add up to the number of lines consumed.
C3_NoLineDroppedOrCountedTwice == SumNumDocs(Groups, DOMAIN Groups) = lines_consumed

\* Empty lines, lines that created groups and lines pushed into them.
C3_Witness ==
    /\ lines_consumed >= 4
    /\ Cardinality(DOMAIN Groups) >= 2
    /\ \E id \in DOMAIN Groups : Groups[id].template.tokens = <<>> /\ Groups[id].num_docs >= 2
    /\ \E id \in DOMAIN Groups : Groups[id].template.tokens # <<>> /\ Groups[id].num_docs >= 2

\* C10 as stated: every byte string visited by iter() has exactly one id.
C10_OneIdPerTerm ==
    \A e1, e2 \in Range(Termmap_iter(termmap)) : e1.bytes = e2.bytes => e1.id = e2.id

\* C10 (amended): every byte string in the regular hashed store has exactly
\* one id there, and no id visited by iter() belongs to two entries; only the
\* id-like log holds bytes under further ids.
C10_OneIdPerTermInRegularStore ==
    LET reg == HashMap_iter(termmap.term_hash_map)
        all == Termmap_iter(termmap)
    IN /\ \A i, j \in DOMAIN reg : reg[i].bytes = reg[j].bytes => i = j
       /\ \A i, j \in DOMAIN all : all[i].id = all[j].id => i = j
       /\ Len(all) = termmap.next_term_id

\* The regular store after a resize, with bytes of it also in the id-like log.
C10_Witness ==
    /\ Len(termmap.term_hash_map.table) > 4
    /\ \E e \in Range(iter_unique(termmap)) :
          \E r \in Range(HashMap_iter(termmap.term_hash_map)) : r.bytes = e.bytes

----------------------------------------------------------------------------
(* Claims about the written index and the search, checked under SpecIndex.  *)

\* The bytes of the line whose tokens are given
RECURSIVE LineBytes(_)
LineBytes(tokens) ==
    IF tokens = <<>> THEN <<>>
    ELSE (IF Head(tokens).type = TT_Whitespace THEN Repeat(32, Head(tokens).num)
          ELSE Head(tokens).bytes) \o LineBytes(Tail(tokens))

\* needle occurs in hay as a contiguous byte string
Contains(hay, needle) ==
    \E p \in 0..(Len(hay) - Len(needle)) : SubSeq(hay, p + 1, p + Len(needle)) = needle

TemplateIds == 0..(Len(index.templates) - 1)

\* The group written as template t and the lines placed in it, in order
GroupOfTemplate(t) == doc_groups.groups[index.order[t + 1]]

LinesOfTemplate(t) == arrival[index.order[t + 1]]

\* The old term ids held by the columns of the groups
OldIdsInColumns ==
    UNION {UNION {Range(Groups[id].columns[c]) : c \in DOMAIN Groups[id].columns} :
           id \in DOMAIN Groups}

\* The Docs of template t in the last search, in the order returned,
\* reconstructed
RetrievedOfTemplate(t) ==
    LET OfT(doc) == doc.template_id = t
    IN retrieve_doc(index, SelectSeq(search_result.docs, OfT))

\* The rows of template t, ascending, whose line has the term q at a
\* Variable slot
RowsWithTerm(t, q) ==
    LET slots == GroupOfTemplate(t).template.tokens
        lines == LinesOfTemplate(t)
    IN SortedSeqOfSet({i \in DOMAIN lines :
           \E k \in DOMAIN slots :
               slots[k].kind = "Variable" /\ lines[i][slots[k].token_index + 1].bytes = q})

\* C4: a search for a term q that occurs in a Variable column of a template
\* returns for that template exactly the rows that hold q, the first
\* MAX_HITS of them in ascending row order, each reconstructed to the
\* original line.
C4_VariableSearchReturnsMatchingRows ==
    search_result.searched =>
        \A t \in TemplateIds :
            LET rows == RowsWithTerm(t, search_result.query)
                n    == Min(Len(rows), MAX_HITS)
            IN rows # <<>> =>
                  RetrievedOfTemplate(t) = [h \in 1..n |-> LineBytes(LinesOfTemplate(t)[rows[h]])]

\* C5: a search for the bytes C of a Constant slot of a template T returns
\* at least min(num_docs(T), MAX_HITS) documents of T, each reconstructing
\* to a line that contains C, also when T has no Variable slot.
C5_ConstantSearchReturnsDocs ==
    search_result.searched =>
        \A t \in TemplateIds :
            LET parts == index.templates[t + 1].parts
                found == RetrievedOfTemplate(t)
            IN (\E k \in DOMAIN parts :
                    parts[k].kind = "Constant" /\ parts[k].bytes = search_result.query)
               => /\ Len(found) >= Min(index.templates[t + 1].num_docs, MAX_HITS)
                  /\ \A h \in DOMAIN found : Contains(found[h], search_result.query)

\* C6: after write_dictionary_and_generate_mapping, every old term id held
\* by a column maps to the ordinal of a dictionary entry whose key is the
\* bytes of that old term; a term absent from the dictionary has its old id
\* in no column.
C6_ColumnIdsMapToTheirDictionaryEntry ==
    index.written =>
        /\ \A old \in OldIdsInColumns :
              LET new == index.old_to_new[old + 1]
              IN /\ new < Len(index.dictionary)
                 /\ TermBytesOfId(termmap, old) = {index.dictionary[new + 1].key}
        /\ \A e \in Range(Termmap_iter(termmap)) :
              (\A i \in DOMAIN index.dictionary : index.dictionary[i].key # e.bytes)
              => e.id \notin OldIdsInColumns

\* An index in which a column holds an id of the id-like log whose bytes
\* another old id in a column has too, and in which a term was skipped.
C6_Witness ==
    /\ index.written
    /\ \E u \in Range(iter_unique(termmap)) : \E r \in Range(HashMap_iter(termmap.term_hash_map)) :
          /\ u.bytes = r.bytes
          /\ u.id \in OldIdsInColumns /\ r.id \in OldIdsInColumns
    /\ \E e \in Range(Termmap_iter(termmap)) :
          /\ \A i \in DOMAIN index.dictionary : index.dictionary[i].key # e.bytes
          /\ \E i \in DOMAIN index.dictionary : BytesLess(e.bytes, index.dictionary[i].key)

\* C7: the keys inserted into the dictionary are strictly increasing, and
\* the i-th inserted key has new id i: every old id of its bytes maps to
\* i, so the new ids are the ordinals 0, 1, ... of the written table.
C7_DictionaryKeysIncreaseWithOrdinalIds ==
    index.written =>
        /\ \A i, j \in DOMAIN index.dictionary :
              i < j => BytesLess(index.dictionary[i].key, index.dictionary[j].key)
        /\ \A i \in DOMAIN index.dictionary :
              LET olds == {e.id : e \in {x \in Range(Termmap_iter(termmap)) :
                                            x.bytes = index.dictionary[i].key}}
              IN /\ olds # {}
                 /\ \A old \in olds : index.old_to_new[old + 1] = i - 1

\* A dictionary of several keys, one of them the bytes of several old ids
\* that have templates, written after a skipped term.
C7_Witness ==
    /\ index.written
    /\ Len(index.dictionary) >= 2
    /\ \E i \in DOMAIN index.dictionary : i > 1 /\
          \E e1, e2 \in Range(Termmap_iter(termmap)) :
              /\ e1.id # e2.id
              /\ e1.bytes = index.dictionary[i].key /\ e2.bytes = index.dictionary[i].key
              /\ e1.id \in OldIdsInColumns /\ e2.id \in OldIdsInColumns
    /\ \E e \in Range(Termmap_iter(termmap)) :
          /\ \A i \in DOMAIN index.dictionary : index.dictionary[i].key # e.bytes
          /\ \E i \in DOMAIN index.dictionary : BytesLess(e.bytes, index.dictionary[i].key)

----------------------------------------------------------------------------
(* The term map driven directly: any sequence of mutate_or_create calls.    *)

\* The keys interned in the term-map specification: "b" and "aa" have the
\* same hash, "c" probes from the last bucket of the initial table.
InternKeys == {<<98>>, <<97, 97>>, <<99>>}

\* The keys interned through the catch-all path.
CatchAllKeys == {<<98>>, <<99>>}

\* The number of mutate_or_create calls in the term-map specification.
MaxCalls == 5

InitTermmap ==
    /\ termmap = NewTermmap
    /\ calls = <<>>
    /\ doc_groups = NewDocGroups
    /\ arrival = <<>>
    /\ lines_consumed = 0
    /\ index = NoIndex
    /\ search_result = NoSearch
    /\ patterns = NoPatterns
    /\ tokenizer = Tokenizer_new(<<>>)
    /\ hashmap = NoHashMap

Interned(key, is_id_like, is_catch_all, r) ==
    /\ termmap' = r.tm
    /\ calls' = Append(calls,
           [key |-> key, is_id_like |-> is_id_like, is_catch_all |-> is_catch_all,
            id |-> r.id,
            next_term_id_before |-> termmap.next_term_id,
            next_term_id_after  |-> r.tm.next_term_id,
            resized |-> (~is_catch_all /\ ~is_id_like
                         /\ is_saturated(termmap.term_hash_map))])

\* A call of mutate_or_create, recorded in calls
Intern(key, is_id_like, is_catch_all) ==
    /\ Len(calls) < MaxCalls
    /\ Interned(key, is_id_like, is_catch_all,
                mutate_or_create(termmap, key, is_id_like, is_catch_all))
    /\ UNCHANGED <<doc_groups, arrival, lines_consumed, index, search_result, patterns, tokenizer, hashmap>>

InternRegular == \E key \in InternKeys : Intern(key, FALSE, FALSE)

InternIdLike == \E key \in InternKeys : Intern(key, TRUE, FALSE)

InternCatchAll == \E key \in CatchAllKeys : Intern(key, FALSE, TRUE)

NextTermmap == InternRegular \/ InternIdLike \/ InternCatchAll

SpecTermmap == InitTermmap /\ [][NextTermmap]_vars

----------------------------------------------------------------------------
(* Claims about the term map, checked under SpecTermmap.                    *)

RegularCall(c) == ~c.is_id_like /\ ~c.is_catch_all

IdLikeCall(c) == c.is_id_like /\ ~c.is_catch_all

\* C8: mutate_or_create(key, is_id_like = false) is idempotent: two calls on
\* the regular path with the same key bytes return the same id, whatever
\* calls and resizes happen in between, and the repeated call leaves
\* next_term_id as it was.
C8_RegularInternIdempotent ==
    \A i, j \in DOMAIN calls :
        (i < j /\ RegularCall(calls[i]) /\ RegularCall(calls[j])
               /\ calls[i].key = calls[j].key)
        => /\ calls[j].id = calls[i].id
           /\ calls[j].next_term_id_after = calls[j].next_term_id_before

\* A key interned on the regular path, then a resize, an id-like call with
\* the same bytes and a regular call with other bytes, then the key again.
C8_Witness ==
    \E i, j \in DOMAIN calls :
        /\ i < j /\ RegularCall(calls[i]) /\ RegularCall(calls[j])
        /\ calls[i].key = calls[j].key
        /\ \E k \in (i + 1)..j : calls[k].resized
        /\ \E k \in (i + 1)..(j - 1) : IdLikeCall(calls[k]) /\ calls[k].key = calls[i].key
        /\ \E k \in (i + 1)..(j - 1) : RegularCall(calls[k]) /\ calls[k].key # calls[i].key

\* C9: mutate_or_create(key, is_id_like = true) never deduplicates: it
\* returns the current next_term_id, an id greater than every id returned
\* before on the regular or the id-like path, and no later regular call
\* returns that id.
C9_IdLikeAlwaysFresh ==
    \A j \in DOMAIN calls :
        IdLikeCall(calls[j])
        => /\ calls[j].id = calls[j].next_term_id_before
           /\ calls[j].next_term_id_after = calls[j].next_term_id_before + 1
           /\ \A i \in DOMAIN calls :
                  (i # j /\ ~calls[i].is_catch_all)
                  => IF i < j THEN calls[i].id < calls[j].id
                     ELSE calls[i].id # calls[j].id

\* Two id-like calls with identical bytes, with regular calls for the same
\* bytes before and after them.
C9_Witness ==
    \E i, j \in DOMAIN calls :
        /\ i < j /\ IdLikeCall(calls[i]) /\ IdLikeCall(calls[j])
        /\ calls[i].key = calls[j].key
        /\ \E k \in 1..(i - 1) : RegularCall(calls[k]) /\ calls[k].key = calls[i].key
        /\ \E k \in (j + 1)..Len(calls) : RegularCall(calls[k]) /\ calls[k].key = calls[i].key

----------------------------------------------------------------------------
(* merge_templates.                                                         *)

\* MergeableTokenGroup::from_token: the num_docs from which a Constant stays
\* a Constant (1000 in the program, scaled down to the lines of the model).
MERGE_CONSTANT_NUM_DOCS == 3

\* MergeableTokenGroup::from_token: the num_docs from which a Whitespace
\* stays a Whitespace (100 in the program, scaled down).
MERGE_WHITESPACE_NUM_DOCS == 2

\* MergeableTokenGroup::Variable
MergeableVariable == [kind |-> "Variable", text |-> <<>>, num |-> 0]

\* from_token with the Constant threshold off by one.
from_token_constant_above(token, num_docs) ==
    CASE token.kind = "Constant" ->
            IF num_docs <= MERGE_CONSTANT_NUM_DOCS THEN MergeableVariable
            ELSE [kind |-> "Constant", text |-> token.text, num |-> 0]
      [] token.kind = "Variable" -> MergeableVariable
      [] OTHER ->
            IF num_docs < MERGE_WHITESPACE_NUM_DOCS THEN MergeableVariable
            ELSE [kind |-> "Whitespace", text |-> <<>>, num |-> token.num]

\* MergeableTokenGroup::from_token
from_token(token, num_docs) ==
    CASE token.kind = "Constant" ->
            IF num_docs < MERGE_CONSTANT_NUM_DOCS THEN MergeableVariable
            ELSE [kind |-> "Constant", text |-> token.text, num |-> 0]
      [] token.kind = "Variable" -> MergeableVariable
      [] OTHER ->
            IF num_docs < MERGE_WHITESPACE_NUM_DOCS THEN MergeableVariable
            ELSE [kind |-> "Whitespace", text |-> <<>>, num |-> token.num]

\* merge_templates: the merge signature of a group
mergeable_token_types(group) ==
    [k \in DOMAIN group.template.tokens |->
        from_token(group.template.tokens[k], group.num_docs)]

\* merge_templates: the map from signature to the ids of its groups, in the
\* order in which doc_groups.iter() visits the groups
token_group_to_group_id(groups, order) ==
    [token_group \in {mergeable_token_types(groups[id]) : id \in DOMAIN groups} |->
        SelectSeq(order, LAMBDA id : mergeable_token_types(groups[id]) = token_group)]

\* A converted slot whose column is filled with the wrong term id.
ConvertedGroup_next_id(group, k, token_type, term_id, tm) ==
    [tm |-> tm,
     group |-> [group EXCEPT
                  !.columns = Append(@, Repeat(term_id + 1, group.num_docs)),
                  !.template.tokens[k] =
                      new_variable(Len(group.columns), token_type,
                                   group.template.tokens[k].token_index)]]

\* convert_to_variable: the slot k becomes a Variable with a new column of
\* num_docs copies of term_id: [tm, group]
ConvertedGroup(group, k, token_type, term_id, tm) ==
    [tm |-> tm,
     group |-> [group EXCEPT
                  !.columns = Append(@, Repeat(term_id, group.num_docs)),
                  !.template.tokens[k] =
                      new_variable(Len(group.columns), token_type,
                                   group.template.tokens[k].token_index)]]

\* convert_to_variable, the Whitespace arm: r is the result of interning the
\* run of spaces
WhitespaceConverted(group, k, r) == ConvertedGroup(group, k, TT_Whitespace, r.id, r.tm)

\* PrelimDocGroup::convert_to_variable (token_idx = k - 1): [tm, group]
convert_to_variable(group, k, tm) ==
    CASE group.template.tokens[k].kind = "Constant" ->
            ConvertedGroup(group, k, group.template.tokens[k].token_type,
                           group.template.tokens[k].term_id, tm)
      [] group.template.tokens[k].kind = "Whitespace" ->
            WhitespaceConverted(group, k,
                mutate_or_create(tm, Repeat(32, group.template.tokens[k].num),
                                 FALSE, FALSE))
      [] OTHER -> [tm |-> tm, group |-> group]

\* s with the group id replaced by the converted group r.group
GroupConverted(s, id, r) == [tm |-> r.tm, groups |-> [s.groups EXCEPT ![id] = r.group]]

\* merge_templates, the conversion loops from token k and from the j-th
\* group of the bucket: s is [tm, groups]
RECURSIVE ConvertFrom(_, _, _, _, _)
ConvertFrom(s, token_group, group_id, k, j) ==
    IF k > Len(token_group) THEN s
    ELSE IF token_group[k].kind # "Variable" \/ j > Len(group_id)
         THEN ConvertFrom(s, token_group, group_id, k + 1, 1)
         ELSE LET converted == GroupConverted(s, group_id[j],
                                  convert_to_variable(s.groups[group_id[j]], k, s.tm))
              IN \* the group is converted before the next one is looked at
                 IF converted = converted
                 THEN ConvertFrom(converted, token_group, group_id, k, j + 1)
                 ELSE converted

\* PrelimDocGroup::append, the zip over the slots from slot k
RECURSIVE AppendColumnsFrom(_, _, _, _)
AppendColumnsFrom(columns, target_tokens, other, k) ==
    IF k > Min(Len(target_tokens), Len(other.template.tokens)) THEN columns
    ELSE IF target_tokens[k].kind = "Variable" /\ other.template.tokens[k].kind = "Variable"
         THEN AppendColumnsFrom(
                  [columns EXCEPT ![target_tokens[k].column_index + 1] =
                      @ \o other.columns[other.template.tokens[k].column_index + 1]],
                  target_tokens, other, k + 1)
         ELSE AppendColumnsFrom(columns, target_tokens, other, k + 1)

\* append that leaves num_docs of the target as it was.
PrelimDocGroup_append_keeps_num_docs(self, other) ==
    [self EXCEPT !.columns = AppendColumnsFrom(self.columns, self.template.tokens, other, 1)]

\* PrelimDocGroup::append
PrelimDocGroup_append(self, other) ==
    [self EXCEPT !.num_docs = @ + other.num_docs,
                 !.columns = AppendColumnsFrom(self.columns, self.template.tokens, other, 1)]

\* merge_templates: the groups group_id[j..] appended to first_group
RECURSIVE AppendOthersFrom(_, _, _, _)
AppendOthersFrom(first_group, groups, group_id, j) ==
    IF j > Len(group_id) THEN first_group
    ELSE AppendOthersFrom(PrelimDocGroup_append(first_group, groups[group_id[j]]),
                          groups, group_id, j + 1)

\* FxHashMap::remove for every key of keys
MapRemove(map, keys) == [k \in DOMAIN map \ keys |-> map[k]]

\* The token types of the slots of a template
SlotTypes(tokens) == [k \in DOMAIN tokens |-> [type |-> tokens[k].token_type]]

\* next_group_salt.wrapping_add(1); the salt counts the groups inserted by
\* merge and split and stays far below the width of u32
NextSalt(dg) == dg.next_group_salt + 1

\* fingerprint_types of the slots of every template of the model, which has
\* the token types of one of the lines
FingerprintOfTypes ==
    [types \in {SlotTypes([k \in DOMAIN tokens |-> [token_type |-> tokens[k].type]]) :
                   tokens \in Lines \cup PatternLines \cup CollisionLines} |->
        fingerprint_types(types)]

\* insert_new_group: the key, fingerprint_types of the slots + salt as u64,
\* read from the table computed once
NewGroupId(group, salt) ==
    U64WrappingAdd(FingerprintOfTypes[SlotTypes(group.template.tokens)],
                   u32_to_le_bytes(salt) \o <<0, 0, 0, 0>>)

\* DocGroups::insert_new_group
insert_new_group(dg, group) ==
    [groups |-> MapInsert(dg.groups, NewGroupId(group, NextSalt(dg)), group),
     next_group_salt |-> NextSalt(dg)]

\* merge_templates, the end of the body of the loop over the buckets: the
\* groups of the bucket are removed and first_group is inserted
MergedStored(s, converted, group_id, first_group) ==
    [tm |-> converted.tm,
     doc_groups |-> insert_new_group(
                        [s.doc_groups EXCEPT !.groups = MapRemove(converted.groups,
                                                                  Range(group_id))],
                        first_group),
     merged |-> Append(s.merged,
                       [group_id |-> group_id,
                        id |-> NewGroupId(first_group, NextSalt(s.doc_groups))])]

\* merge_templates, the body of the loop for a bucket whose groups were
\* converted
BucketConverted(s, converted, group_id) ==
    MergedStored(s, converted, group_id,
                 AppendOthersFrom(converted.groups[group_id[1]], converted.groups,
                                  group_id, 2))

\* merge_templates, the loop over the buckets visit[i..]; s is
\* [tm, doc_groups, merged]
RECURSIVE MergeBucketsFrom(_, _, _, _)
MergeBucketsFrom(s, buckets, visit, i) ==
    IF i > Len(visit) THEN s
    ELSE IF Len(buckets[visit[i]]) < 2 THEN MergeBucketsFrom(s, buckets, visit, i + 1)
    ELSE MergeBucketsFrom(
             BucketConverted(s,
                 ConvertFrom([tm |-> s.tm, groups |-> s.doc_groups.groups],
                             visit[i], buckets[visit[i]], 1, 1),
                 buckets[visit[i]]),
             buckets, visit, i + 1)

\* merge_templates: [tm, doc_groups, merged]; order is the order in which
\* doc_groups.iter() visits the groups, visit the order in which the map of
\* buckets is iterated; merged lists, per merged bucket, its group ids and
\* the key of the merged group
merge_templates(dg, tm, order, visit) ==
    MergeBucketsFrom([tm |-> tm, doc_groups |-> dg, merged |-> <<>>],
                     token_group_to_group_id(dg.groups, order), visit, 1)

----------------------------------------------------------------------------
(* split_templates.                                                         *)

\* split_templates: the frequency a term id has to exceed in a column to be
\* moved out (SPLIT_TEMPLATE_THRESHOLD, 400_000 by default, scaled down).
SPLIT_TEMPLATE_THRESHOLD == 1

\* find_term_for_term_id on the regular store: a linear scan for the entry
\* with the id
find_term_for_term_id(tm, term_id) ==
    IF \E e \in Range(HashMap_iter(tm.term_hash_map)) : e.id = term_id
    THEN (CHOOSE e \in Range(HashMap_iter(tm.term_hash_map)) : e.id = term_id).bytes
    ELSE Panic

\* Vec::retain of remove_rows from row (0-based) on: the entries whose row
\* is in marked when keep_marked, the others when not
RECURSIVE RetainFrom(_, _, _, _)
RetainFrom(column, row, marked, keep_marked) ==
    IF row >= Len(column) THEN <<>>
    ELSE (IF (row \in marked) = keep_marked THEN <<column[row + 1]>> ELSE <<>>)
         \o RetainFrom(column, row + 1, marked, keep_marked)

\* PrelimDocGroup::remove_rows
remove_rows(group, marked, keep_marked) ==
    [group EXCEPT !.columns =
        [c \in DOMAIN group.columns |-> RetainFrom(group.columns[c], 0, marked, keep_marked)]]

\* Vec::remove(i), i 0-based
RemoveAt(s, i) == SubSeq(s, 1, i) \o SubSeq(s, i + 2, Len(s))

\* move_term_id_to_new_group: the rows whose value in the column is term_id
MarkedRows(group, term_id, column_index) ==
    {row \in 0..(Len(group.columns[column_index + 1]) - 1) :
        group.columns[column_index + 1][row + 1] = term_id}

\* The slots of the new group without the shift of the column indices.
NewGroupTokens_unshifted(tokens, term_id, column_index, text) ==
    [k \in DOMAIN tokens |->
        IF tokens[k].kind = "Variable" /\ tokens[k].column_index = column_index
        THEN ConstantSlot(tokens[k].token_type, term_id, text, tokens[k].token_index)
        ELSE tokens[k]]

\* move_term_id_to_new_group: the slots of the new group; the Variable of
\* the column becomes a Constant, the column indices above it move down
NewGroupTokens(tokens, term_id, column_index, text) ==
    [k \in DOMAIN tokens |->
        IF tokens[k].kind = "Variable" /\ tokens[k].column_index = column_index
        THEN ConstantSlot(tokens[k].token_type, term_id, text, tokens[k].token_index)
        ELSE IF tokens[k].kind = "Variable" /\ tokens[k].column_index > column_index
             THEN [tokens[k] EXCEPT !.column_index = @ - 1]
             ELSE tokens[k]]

\* move_term_id_to_new_group with the rows marked: [group, new_group]
RowsMoved(group, term_id, column_index, text, marked) ==
    [group |-> [remove_rows(group, marked, FALSE) EXCEPT
                   !.num_docs = @ - Cardinality(marked)],
     new_group |-> [remove_rows(group, marked, TRUE) EXCEPT
                   !.num_docs = Cardinality(marked),
                   !.template.tokens =
                       NewGroupTokens(@, term_id, column_index, text),
                   !.columns = RemoveAt(@, column_index)]]

\* move_term_id_to_new_group: [group, new_group]
move_term_id_to_new_group(group, term_id, column_index, tm) ==
    RowsMoved(group, term_id, column_index, find_term_for_term_id(tm, term_id),
              MarkedRows(group, term_id, column_index))

\* split_templates: the term ids whose frequency in the column exceeds the
\* threshold
OverThreshold(column) ==
    {term_id \in Range(column) :
        Cardinality({i \in DOMAIN column : column[i] = term_id})
            > SPLIT_TEMPLATE_THRESHOLD}

\* s after the move r: the group of the loop, the staged new groups and the
\* record of the call
MoveRecorded(s, id, term_id, column_index, r) ==
    [group |-> r.group,
     new_groups |-> Append(s.new_groups, r.new_group),
     moves |-> Append(s.moves,
                      [id |-> id, term_id |-> term_id, column_index |-> column_index,
                       before |-> s.group, after |-> r.group, new_group |-> r.new_group])]

\* split_templates, the loop over term_frequencies for one column: the
\* outcomes of moving the term ids of ids in each order the map may yield
RECURSIVE ColumnOutcomes(_, _, _, _, _)
ColumnOutcomes(s, id, ids, column_index, tm) ==
    IF ids = {} THEN {s}
    ELSE UNION {ColumnOutcomes(
                    MoveRecorded(s, id, term_id, column_index,
                        move_term_id_to_new_group(s.group, term_id, column_index, tm)),
                    id, ids \ {term_id}, column_index, tm) : term_id \in ids}

\* split_templates, the loop over the cloned template tokens k.. of a group:
\* from the outcomes so far to the outcomes after the last token
RECURSIVE TokensOutcomes(_, _, _, _, _)
TokensOutcomes(outcomes, id, tokens, k, tm) ==
    IF k > Len(tokens) THEN outcomes
    ELSE IF tokens[k].kind = "Variable"
         THEN TokensOutcomes(
                  UNION {ColumnOutcomes(s, id,
                             OverThreshold(s.group.columns[tokens[k].column_index + 1]),
                             tokens[k].column_index, tm) : s \in outcomes},
                  id, tokens, k + 1, tm)
         ELSE TokensOutcomes(outcomes, id, tokens, k + 1, tm)

\* The outcome s of the loop over one group put back into the groups: t is
\* [groups, new_groups, moves]
GroupSplit(t, id, s) ==
    [groups |-> [t.groups EXCEPT ![id] = s.group],
     new_groups |-> s.new_groups, moves |-> s.moves]

\* split_templates, the loop over doc_groups.values_mut() from order[i]
RECURSIVE GroupsOutcomes(_, _, _, _)
GroupsOutcomes(outcomes, order, i, tm) ==
    IF i > Len(order) THEN outcomes
    ELSE GroupsOutcomes(
             UNION {{GroupSplit(t, order[i], s) :
                        s \in TokensOutcomes(
                                 {[group |-> t.groups[order[i]],
                                   new_groups |-> t.new_groups, moves |-> t.moves]},
                                 order[i], t.groups[order[i]].template.tokens, 1, tm)} :
                    t \in outcomes},
             order, i + 1, tm)

\* split_templates, the final loop: insert_new_group for new_groups[i..]
RECURSIVE InsertNewGroupsFrom(_, _, _)
InsertNewGroupsFrom(dg, new_groups, i) ==
    IF i > Len(new_groups) THEN dg
    ELSE InsertNewGroupsFrom(insert_new_group(dg, new_groups[i]), new_groups, i + 1)

\* split_templates: the set of [doc_groups, moves] it may end in; order is
\* the order in which doc_groups.values_mut() visits the groups
split_templates(dg, tm, order) ==
    {[doc_groups |-> InsertNewGroupsFrom([dg EXCEPT !.groups = t.groups],
                                         t.new_groups, 1),
      moves |-> t.moves] :
        t \in GroupsOutcomes({[groups |-> dg.groups, new_groups |-> <<>>,
                               moves |-> <<>>]}, order, 1, tm)}

----------------------------------------------------------------------------
(* preliminary_index followed by merge_templates and split_templates.       *)

\* The number of lines ingested before the templates are merged or split.
MaxPatternLines == 4

\* The number of merge_templates and split_templates calls.
MaxPatternCalls == 2

PatternLine(tokens) ==
    /\ lines_consumed < MaxPatternLines
    /\ patterns.op = "none"
    /\ IngestStep(tokens)

\* The state after merge_templates returned r
Merged(r) ==
    /\ termmap' = r.tm
    /\ doc_groups' = r.doc_groups
    /\ patterns' = [op |-> "merge", count |-> patterns.count + 1,
                    groups |-> doc_groups.groups, tm |-> termmap,
                    merged |-> r.merged, moves |-> <<>>]

\* merge_templates(index)
MergeTemplates(order, visit) ==
    /\ patterns.count < MaxPatternCalls
    /\ Merged(merge_templates(doc_groups, termmap, order, visit))
    /\ UNCHANGED <<calls, arrival, lines_consumed, index, search_result, tokenizer, hashmap>>

PatternLine_step == \E tokens \in PatternLines : PatternLine(tokens)

\* The signatures shared by two or more groups
MergeableBuckets(groups) ==
    {token_group \in {mergeable_token_types(groups[id]) : id \in DOMAIN groups} :
        Cardinality({id \in DOMAIN groups :
                        mergeable_token_types(groups[id]) = token_group}) >= 2}

MergeTemplates_step ==
    \E order \in Orders(DOMAIN doc_groups.groups) :
        \E visit \in Orders(MergeableBuckets(doc_groups.groups)) :
            MergeTemplates(order, visit)

\* The state after split_templates returned r
Split(r) ==
    /\ doc_groups' = r.doc_groups
    /\ patterns' = [op |-> "split", count |-> patterns.count + 1,
                    groups |-> doc_groups.groups, tm |-> termmap,
                    merged |-> <<>>, moves |-> r.moves]

\* split_templates(index)
SplitTemplates(order) ==
    /\ patterns.count < MaxPatternCalls
    /\ \E r \in split_templates(doc_groups, termmap, order) : Split(r)
    /\ UNCHANGED <<termmap, calls, arrival, lines_consumed, index, search_result, tokenizer, hashmap>>

SplitTemplates_step ==
    \E order \in Orders(DOMAIN doc_groups.groups) : SplitTemplates(order)

NextPatterns == PatternLine_step \/ MergeTemplates_step \/ SplitTemplates_step

SpecPatterns == Init /\ [][NextPatterns]_vars

----------------------------------------------------------------------------
(* preliminary_index of lines whose keys lie within a salt of each other,   *)
(* followed by merge_templates.                                             *)

\* The number of lines ingested before the templates are merged.
MaxCollisionLines == 4

CollisionLine(tokens) ==
    /\ lines_consumed < MaxCollisionLines
    /\ patterns.op = "none"
    /\ IngestStep(tokens)

CollisionLine_step == \E tokens \in CollisionLines : CollisionLine(tokens)

NextCollision == CollisionLine_step \/ MergeTemplates_step

SpecCollision == Init /\ [][NextCollision]_vars

----------------------------------------------------------------------------
(* Claims about merge_templates and split_templates, checked under          *)
(* SpecPatterns.                                                            *)

\* The term ids a group holds at slot k, row by row: the column of a
\* Variable, the term id of a Constant and the id of the run of spaces of a
\* Whitespace for every row
SlotRows(group, k, tm) ==
    CASE group.template.tokens[k].kind = "Variable" ->
            ColumnOf(group, group.template.tokens[k])
      [] group.template.tokens[k].kind = "Constant" ->
            Repeat(group.template.tokens[k].term_id, group.num_docs)
      [] OTHER ->
            Repeat(HashMap_get(tm.term_hash_map, Repeat(32, group.template.tokens[k].num)),
                   group.num_docs)

\* The rows at slot k of the groups group_id[j..], one group after the other
RECURSIVE BucketRowsFrom(_, _, _, _, _)
BucketRowsFrom(groups, group_id, j, k, tm) ==
    IF j > Len(group_id) THEN <<>>
    ELSE SlotRows(groups[group_id[j]], k, tm)
         \o BucketRowsFrom(groups, group_id, j + 1, k, tm)

\* C11: after merge_templates, for every merged bucket the merged group's
\* num_docs is the sum of the num_docs the groups of the bucket had, every
\* column of the merged group has that many entries, and the column of each
\* Variable slot holds the target's rows followed by the rows of the other
\* groups in bucket order.
C11_MergeSumsNumDocs ==
    patterns.op = "merge" =>
        \A e \in DOMAIN patterns.merged :
            LET bucket == patterns.merged[e].group_id
                id     == patterns.merged[e].id
                total  == SumSeq([j \in DOMAIN bucket |-> patterns.groups[bucket[j]].num_docs])
            IN /\ id \in DOMAIN Groups
               /\ Groups[id].num_docs = total
               /\ \A c \in DOMAIN Groups[id].columns : Len(Groups[id].columns[c]) = total
               /\ \A k \in DOMAIN Groups[id].template.tokens :
                     Groups[id].template.tokens[k].kind = "Variable" =>
                         ColumnOf(Groups[id], Groups[id].template.tokens[k])
                             = BucketRowsFrom(patterns.groups, bucket, 1, k, termmap)

\* Two groups of two lines each were merged: the Whitespace slot stayed, a
\* Constant slot was converted, and the merged group has four rows.
C11_Witness ==
    /\ patterns.op = "merge"
    /\ \E e \in DOMAIN patterns.merged :
          LET bucket == patterns.merged[e].group_id
              merged == Groups[patterns.merged[e].id]
          IN /\ Len(bucket) = 2
             /\ merged.num_docs = 4
             /\ patterns.groups[bucket[2]].num_docs = 2
             /\ \E k \in DOMAIN merged.template.tokens :
                   merged.template.tokens[k].kind = "Whitespace"
             /\ \E k \in DOMAIN merged.template.tokens :
                   /\ merged.template.tokens[k].kind = "Variable"
                   /\ patterns.groups[bucket[1]].template.tokens[k].kind = "Constant"

\* The rows of column that are not in rows (0-based), in their order
RowsOutside(column, rows) ==
    LET kept == SortedSeqOfSet({i \in DOMAIN column : (i - 1) \notin rows})
    IN [j \in DOMAIN kept |-> column[kept[j]]]

\* The column indices of the Variable slots of a group
VariableColumns(group) ==
    {k \in DOMAIN group.template.tokens : group.template.tokens[k].kind = "Variable"}

\* C12: for every call of move_term_id_to_new_group made by split_templates,
\* the num_docs of the original after the call and of the returned group
\* add up to the original's num_docs before; every column of either group
\* has its group's num_docs entries; the original keeps exactly the rows
\* whose value in the column differs from term_id; the returned group has
\* one column fewer and its Variable slots point at distinct existing
\* columns.
C12_SplitKeepsRowsAndColumnIndices ==
    patterns.op = "split" =>
        \A m \in DOMAIN patterns.moves :
            LET call   == patterns.moves[m]
                moved  == {row \in 0..(call.before.num_docs - 1) :
                              call.before.columns[call.column_index + 1][row + 1]
                                  = call.term_id}
            IN /\ call.after.num_docs + call.new_group.num_docs = call.before.num_docs
               /\ \A c \in DOMAIN call.after.columns :
                     Len(call.after.columns[c]) = call.after.num_docs
               /\ \A c \in DOMAIN call.new_group.columns :
                     Len(call.new_group.columns[c]) = call.new_group.num_docs
               /\ Len(call.after.columns) = Len(call.before.columns)
               /\ \A c \in DOMAIN call.after.columns :
                     call.after.columns[c] = RowsOutside(call.before.columns[c], moved)
               /\ Len(call.new_group.columns) = Len(call.before.columns) - 1
               /\ \A k \in VariableColumns(call.new_group) :
                     call.new_group.template.tokens[k].column_index
                         \in 0..(Len(call.new_group.columns) - 1)
               /\ \A k1, k2 \in VariableColumns(call.new_group) :
                     k1 # k2 => call.new_group.template.tokens[k1].column_index
                                  # call.new_group.template.tokens[k2].column_index

\* A call that moved two rows out of a group of three, out of the first of
\* two columns, so that the column index of the other Variable moved down.
C12_Witness ==
    /\ patterns.op = "split"
    /\ \E m \in DOMAIN patterns.moves :
          LET call == patterns.moves[m]
          IN /\ call.before.num_docs = 3
             /\ call.new_group.num_docs = 2
             /\ call.after.num_docs = 1
             /\ call.column_index = 0
             /\ Len(call.before.columns) = 2
             /\ \E k \in VariableColumns(call.new_group) :
                   /\ call.before.template.tokens[k].column_index = 1
                   /\ call.new_group.template.tokens[k].column_index = 0

\* The bytes of the term with the id
BytesOfId(tm, id) ==
    IF TermBytesOfId(tm, id) = {} THEN Panic ELSE CHOOSE b \in TermBytesOfId(tm, id) : TRUE

\* The line reconstructed from row (0-based) of a group, from slot k on: a
\* Constant gives its bytes, a Variable the bytes of the row's term id and
\* a Whitespace its number of spaces
RECURSIVE RowLineFrom(_, _, _, _)
RowLineFrom(group, row, k, tm) ==
    IF k > Len(group.template.tokens) THEN <<>>
    ELSE (CASE group.template.tokens[k].kind = "Constant" -> group.template.tokens[k].text
            [] group.template.tokens[k].kind = "Variable" ->
                  BytesOfId(tm, ColumnOf(group, group.template.tokens[k])[row + 1])
            [] OTHER -> Repeat(32, group.template.tokens[k].num))
         \o RowLineFrom(group, row, k + 1, tm)

\* The rows of all groups, as pairs of group key and row
RowsOf(groups) ==
    UNION {{<<id, row>> : row \in 0..(groups[id].num_docs - 1)} : id \in DOMAIN groups}

\* The multiset of the lines reconstructed from all rows: per line, the
\* number of rows that give it
LinesBag(groups, tm) ==
    LET line == [p \in RowsOf(groups) |-> RowLineFrom(groups[p[1]], p[2], 1, tm)]
    IN [l \in Range(line) |-> Cardinality({p \in RowsOf(groups) : line[p] = l})]

----------------------------------------------------------------------------
(* Claims about the written dictionary, checked under SpecIndex.            *)

\* The terms of a sequence of lines: the bytes of their tokens other than
\* whitespace
TermsOfLines(lines) ==
    UNION {{lines[i][k].bytes : k \in {k \in DOMAIN lines[i] :
                                          lines[i][k].type # TT_Whitespace}} :
           i \in DOMAIN lines}

\* The lexicographic rank of term among the byte strings of terms
RankIn(term, terms) == Cardinality({t \in terms : BytesLess(t, term)})

\* The lines agree in every token but the one at position p, a token other
\* than whitespace in which two of them differ
DifferOnlyAt(lines, p) ==
    /\ \A i, j \in DOMAIN lines :
          /\ Len(lines[i]) = Len(lines[j])
          /\ \A k \in DOMAIN lines[i] : k # p => lines[i][k] = lines[j][k]
    /\ p \in DOMAIN lines[1]
    /\ lines[1][p].type # TT_Whitespace
    /\ \E i, j \in DOMAIN lines : lines[i][p] # lines[j][p]

\* C14: when the lines share a fingerprint and differ in exactly one token
\* position, there is one group with one column of num_docs entries, every
\* distinct term of the lines is a dictionary key, and the remapped column
\* holds for each row, in insertion order, the lexicographic rank of the
\* row's term among all distinct terms of the lines.
C14_OneColumnOfRanksAmongAllTerms ==
    (index.written /\ Cardinality(DOMAIN arrival) = 1) =>
        \A id \in DOMAIN arrival : \A p \in 1..3 :
            DifferOnlyAt(arrival[id], p) =>
                /\ DOMAIN Groups = {id}
                /\ Len(Groups[id].columns) = 1
                /\ Len(Groups[id].columns[1]) = Groups[id].num_docs
                /\ Groups[id].num_docs = Len(arrival[id])
                /\ \A t \in TermsOfLines(arrival[id]) :
                      \E d \in DOMAIN index.dictionary : index.dictionary[d].key = t
                /\ decompress_column(index.column_files[get_template_path(0)],
                                     Groups[id].num_docs)
                      = <<[i \in DOMAIN arrival[id] |->
                              RankIn(arrival[id][i][p].bytes,
                                     TermsOfLines(arrival[id]))]>>

\* preliminary_index, the loop over lines[i..]: s is [tm, doc_groups]
RECURSIVE IngestFrom(_, _, _)
IngestFrom(s, lines, i) ==
    IF i > Len(lines) THEN s
    ELSE IngestFrom(DocGroups_insert(s.doc_groups, lines[i], s.tm), lines, i + 1)

\* preliminary_index(lines): [tm, doc_groups]
preliminary_index(lines) ==
    IngestFrom([tm |-> NewTermmap, doc_groups |-> NewDocGroups], lines, 1)

\* The old-id -> new-id mapping written for a preliminary index whose
\* groups are visited in the given order
MappingOf(prelim, order) ==
    write_dictionary_and_generate_mapping(prelim.tm,
        term_id_idx_to_template_ids(assign_template_ids(prelim.doc_groups.groups, order),
                                    prelim.tm)).old_to_new

\* The distinct term byte strings of a term map
TermsOf(tm) == {e.bytes : e \in Range(Termmap_iter(tm))}

\* The new ids a mapping gives to the old ids of a term
NewIdsOfTerm(tm, old_to_new, term) ==
    {old_to_new[e.id + 1] : e \in {x \in Range(Termmap_iter(tm)) : x.bytes = term}}

\* The number of lines of each of two runs that are compared.
MaxRunLines == 2

\* The inputs of a run: the sequences of at most MaxRunLines lines
Runs == UNION {[1..n -> Lines] : n \in 0..MaxRunLines}

\* A second run whose term map holds the same set of byte strings gives
\* every term the new id this run gave it
TwoRunsAgree ==
    \A lines \in Runs :
        TermsOf(preliminary_index(lines).tm) = TermsOf(termmap) =>
            \A order \in Orders(DOMAIN preliminary_index(lines).doc_groups.groups) :
                \A term \in TermsOf(termmap) :
                    NewIdsOfTerm(preliminary_index(lines).tm,
                                 MappingOf(preliminary_index(lines), order), term)
                        = NewIdsOfTerm(termmap, index.old_to_new, term)

\* C15: the new id of a term is its lexicographic rank among the distinct
\* term byte strings of the term map, so that a second run whose term map
\* holds the same set of byte strings, whatever its lines, gives every term
\* the same new id.
C15_NewIdsDependOnTermSetOnly ==
    (index.written /\ lines_consumed <= MaxRunLines) =>
        /\ \A term \in TermsOf(termmap) :
              NewIdsOfTerm(termmap, index.old_to_new, term)
                  = {RankIn(term, TermsOf(termmap))}
        /\ TwoRunsAgree

----------------------------------------------------------------------------
(* Tokenizer (tokenizer/mod.rs).  An input line is a sequence of bytes; pos  *)
(* counts bytes from 0 as in the source, so byte pos is input[pos + 1].      *)

MAX_TOKENS == 40

\* u8::is_ascii_whitespace: tab, line feed, form feed, carriage return, space
WHITESPACE_LOOKUP_TABLE == {9, 10, 12, 13, 32}

\* u8::is_ascii_punctuation
PUNCTUATION_LOOKUP_TABLE == (33..47) \cup (58..64) \cup (91..96) \cup (123..126)

\* u8::is_ascii_digit
DIGIT_LOOKUP_TABLE == 48..57

\* u8::is_ascii_hexdigit
HEX_DIGIT_LOOKUP_TABLE == (48..57) \cup (65..70) \cup (97..102)

\* u8::is_ascii_uppercase
AsciiUppercase == 65..90

\* whitespace, or punctuation other than '.', '-' and '_'
WORD_DELIMITER_LOOKUP_TABLE ==
    WHITESPACE_LOOKUP_TABLE \cup (PUNCTUATION_LOOKUP_TABLE \ {46, 45, 95})

\* Option::None of the classifiers
None == -1

\* bytes.iter().take_while(|b| table[b]).count()
RECURSIVE TakeWhileCount(_, _)
TakeWhileCount(bytes, table) ==
    IF bytes = <<>> \/ Head(bytes) \notin table THEN 0
    ELSE 1 + TakeWhileCount(Tail(bytes), table)

\* is_ipv4: the while loop over the digits of one octet, from index i
RECURSIVE OctetDigits(_, _, _, _)
OctetDigits(bytes, i, val, digit_cnt) ==
    IF i < Len(bytes) /\ bytes[i + 1] \in DIGIT_LOOKUP_TABLE
    THEN IF digit_cnt + 1 > 3 \/ val * 10 + (bytes[i + 1] - 48) > 255
         THEN [ok |-> FALSE, i |-> i + 1, digit_cnt |-> digit_cnt + 1]
         ELSE OctetDigits(bytes, i + 1, val * 10 + (bytes[i + 1] - 48), digit_cnt + 1)
    ELSE [ok |-> TRUE, i |-> i, digit_cnt |-> digit_cnt]

\* is_ipv4: what follows the digits of octet octet_idx, which started at start
AfterOctet(bytes, start, octet, octet_idx) ==
    IF ~octet.ok THEN [ok |-> FALSE, i |-> octet.i]
    ELSE IF octet.digit_cnt > 1 /\ bytes[start + 1] = 48 THEN [ok |-> FALSE, i |-> octet.i]
    ELSE IF octet_idx < 3
         THEN IF octet.i >= Len(bytes) \/ bytes[octet.i + 1] # 46
              THEN [ok |-> FALSE, i |-> octet.i]
              ELSE [ok |-> TRUE, i |-> octet.i + 1]
         ELSE [ok |-> TRUE, i |-> octet.i]

\* is_ipv4: the for loop over the four octets.  After the fourth octet the
\* function returns i, whatever byte follows.
RECURSIVE OctetsFrom(_, _, _)
OctetsFrom(bytes, i, octet_idx) ==
    IF octet_idx = 4 THEN i
    ELSE IF i >= Len(bytes) \/ bytes[i + 1] \notin DIGIT_LOOKUP_TABLE THEN None
    ELSE IF ~AfterOctet(bytes, i, OctetDigits(bytes, i, 0, 0), octet_idx).ok THEN None
    ELSE OctetsFrom(bytes, AfterOctet(bytes, i, OctetDigits(bytes, i, 0, 0), octet_idx).i,
                    octet_idx + 1)

is_ipv4(bytes) ==
    IF bytes[1] \notin DIGIT_LOOKUP_TABLE THEN None ELSE OctetsFrom(bytes, 0, 0)

\* the bytes is_composite_id's full scan accepts: digit, uppercase, '-', ':', '_'
CompositeIdBytes == DIGIT_LOOKUP_TABLE \cup AsciiUppercase \cup {45, 58, 95}

is_composite_id(bytes) ==
    IF bytes[1] \notin DIGIT_LOOKUP_TABLE /\ bytes[1] \notin AsciiUppercase THEN None
    ELSE IF Len(bytes) < 8 THEN None
    ELSE IF \/ ~(\E k \in 1..8 : bytes[k] \in DIGIT_LOOKUP_TABLE)
            \/ ~(\E k \in 1..8 : bytes[k] \in AsciiUppercase)
         THEN None
    ELSE TakeWhileCount(bytes, CompositeIdBytes \ WHITESPACE_LOOKUP_TABLE)

is_number(bytes) ==
    IF bytes[1] \notin DIGIT_LOOKUP_TABLE THEN None
    ELSE TakeWhileCount(bytes, DIGIT_LOOKUP_TABLE)

\* the byte positions is_uuid_v4 checks for hexadecimal digits, counted from 1
UuidHexPositions == (1..8) \cup (10..13) \cup (15..18) \cup (20..23) \cup (25..36)

is_uuid_v4(bytes) ==
    IF Len(bytes) < 36 \/ bytes[1] \notin HEX_DIGIT_LOOKUP_TABLE THEN None
    ELSE IF bytes[9] # 45 \/ bytes[14] # 45 \/ bytes[19] # 45 \/ bytes[24] # 45 THEN None
    ELSE IF \E k \in UuidHexPositions : bytes[k] \notin HEX_DIGIT_LOOKUP_TABLE THEN None
    ELSE 36

word_len(bytes) == TakeWhileCount(bytes, (0..255) \ WORD_DELIMITER_LOOKUP_TABLE)

\* str::parse::<u64> of a run of digits
RECURSIVE ParseU64From(_, _)
ParseU64From(digits, acc) ==
    IF digits = <<>> THEN acc
    ELSE ParseU64From(Tail(digits), acc * 10 + (Head(digits) - 48))

\* Number::new.  The digit runs of the model's lines fit a u64, so parse::<u64>
\* succeeds and the f64 fallback is not taken.
Number_new(input, start, end) == ParseU64From(SubSeq(input, start + 1, end), 0)

\* u64::to_string
RECURSIVE u64_to_string(_)
u64_to_string(n) ==
    IF n < 10 THEN <<48 + n>> ELSE u64_to_string(n \div 10) \o <<48 + (n % 10)>>

\* Number::to_string
Number_to_string(num) == u64_to_string(num)

\* A Token.  num is the run length of a Whitespace and the value of a Number;
\* start and end are the range of the other tokens, and for Whitespace and
\* Number the history of the positions the tokenizer moved over.
TokenAt(type, start, end, num) == [type |-> type, start |-> start, end |-> end, num |-> num]

\* Token::to_string
Token_to_string(token, input) ==
    IF token.type = TT_Whitespace THEN Repeat(32, token.num)
    ELSE IF token.type = TT_Number THEN Number_to_string(token.num)
    ELSE SubSeq(input, token.start + 1, token.end)

\* reconstruct_from_tokens
RECURSIVE reconstruct_from_tokens(_, _)
reconstruct_from_tokens(input, tokens) ==
    IF tokens = <<>> THEN <<>>
    ELSE Token_to_string(Head(tokens), input) \o reconstruct_from_tokens(input, Tail(tokens))

\* Tokenizer::next, step 4 with Number tried before the composite id
Classify_number_first(input, start, bytes) ==
    IF is_ipv4(bytes) # None THEN TokenAt(TT_IPv4, start, start + is_ipv4(bytes), 0)
    ELSE IF is_number(bytes) # None
         THEN TokenAt(TT_Number, start, start + is_number(bytes),
                      Number_new(input, start, start + is_number(bytes)))
    ELSE IF is_composite_id(bytes) # None
         THEN TokenAt(TT_Word, start, start + is_composite_id(bytes), 0)
    ELSE IF is_uuid_v4(bytes) # None THEN TokenAt(TT_Uuid, start, start + is_uuid_v4(bytes), 0)
    ELSE TokenAt(TT_Word, start, start + word_len(bytes), 0)

\* Tokenizer::next, step 4: classify
Classify(input, start, bytes) ==
    IF is_ipv4(bytes) # None THEN TokenAt(TT_IPv4, start, start + is_ipv4(bytes), 0)
    ELSE IF is_composite_id(bytes) # None
         THEN TokenAt(TT_Word, start, start + is_composite_id(bytes), 0)
    ELSE IF is_number(bytes) # None
         THEN TokenAt(TT_Number, start, start + is_number(bytes),
                      Number_new(input, start, start + is_number(bytes)))
    ELSE IF is_uuid_v4(bytes) # None THEN TokenAt(TT_Uuid, start, start + is_uuid_v4(bytes), 0)
    ELSE TokenAt(TT_Word, start, start + word_len(bytes), 0)

\* Tokenizer::next: the token returned when input remains at pos
NextToken(input, pos, token_count, bytes) ==
    IF token_count >= MAX_TOKENS THEN TokenAt(TT_CatchAll, pos, Len(input), 0)
    ELSE IF bytes[1] \in WHITESPACE_LOOKUP_TABLE
         THEN TokenAt(TT_Whitespace, pos, pos + TakeWhileCount(bytes, WHITESPACE_LOOKUP_TABLE),
                      TakeWhileCount(bytes, WHITESPACE_LOOKUP_TABLE))
    ELSE IF bytes[1] \in PUNCTUATION_LOOKUP_TABLE
         THEN TokenAt(TT_Punctuation, pos,
                      pos + TakeWhileCount(bytes, PUNCTUATION_LOOKUP_TABLE), 0)
    ELSE Classify(input, pos, bytes)

\* the bytes of the input from pos on
Rest(input, pos) == SubSeq(input, pos + 1, Len(input))

\* Tokenizer::next on t
Tokenizer_next(t) ==
    [input |-> t.input,
     pos |-> NextToken(t.input, t.pos, t.token_count, Rest(t.input, t.pos)).end,
     token_count |-> t.token_count + 1,
     tokens |-> Append(t.tokens, NextToken(t.input, t.pos, t.token_count, Rest(t.input, t.pos)))]

\* tokenize: the tokens of the whole line
RECURSIVE TokenizeFrom(_)
TokenizeFrom(t) == IF t.pos >= Len(t.input) THEN t.tokens ELSE TokenizeFrom(Tokenizer_next(t))

tokenize(input) == TokenizeFrom(Tokenizer_new(input))

----------------------------------------------------------------------------
(* The input lines of the tokenizer.                                         *)

MaxInputLen == 3

\* 'a', 'A', '1', '0', '.', ':', ' ', tab
Alphabet == {97, 65, 49, 48, 46, 58, 32, 9}

\* every line of at most MaxInputLen bytes of the alphabet
ShortLines == UNION {[1..k -> Alphabet] : k \in 0..MaxInputLen}

\* "0", "1", "01", "255", "256"
Octets == {<<48>>, <<49>>, <<48, 49>>, <<50, 53, 53>>, <<50, 53, 54>>}

\* "", "a", ".1", " ", ":1"
Suffixes == {<<>>, <<97>>, <<46, 49>>, <<32>>, <<58, 49>>}

\* four dot-separated octets and what follows them
DottedLines ==
    {a \o <<46>> \o b \o <<46>> \o c \o <<46>> \o d \o s :
        a \in Octets, b \in Octets, c \in Octets, d \in Octets, s \in Suffixes}

\* str::repeat
RECURSIVE str_repeat(_, _)
str_repeat(s, n) == IF n = 0 THEN <<>> ELSE s \o str_repeat(s, n - 1)

\* the line of test_max_tokens: "a ".repeat(55) followed by "b ".repeat(5)
Line_max_tokens == str_repeat(<<97, 32>>, 55) \o str_repeat(<<98, 32>>, 5)

\* the line of test_tokenizer_simple: src: /10.10.34.30:33078, dest: /10.10.34.11:50010
Line_tokenizer_simple ==
    <<115, 114, 99, 58, 32, 47, 49, 48, 46, 49, 48, 46, 51, 52, 46, 51, 48, 58, 51, 51,
      48, 55, 56, 44, 32, 100, 101, 115, 116, 58, 32, 47, 49, 48, 46, 49, 48, 46, 51,
      52, 46, 49, 49, 58, 53, 48, 48, 49, 48>>

\* a UUID that starts with a hexadecimal letter: e23e4567-e89b-12d3-a456-426614174000
Line_uuid ==
    <<101, 50, 51, 101, 52, 53, 54, 55, 45, 101, 56, 57, 98, 45, 49, 50, 100, 51, 45,
      97, 52, 53, 54, 45, 52, 50, 54, 54, 49, 52, 49, 55, 52, 48, 48, 48>>

\* a UUID that starts with a digit: 123e4567-e89b-12d3-a456-426614174000 x
Line_uuid_digit_first ==
    <<49, 50, 51, 101, 52, 53, 54, 55, 45, 101, 56, 57, 98, 45, 49, 50, 100, 51, 45,
      97, 52, 53, 54, 45, 52, 50, 54, 54, 49, 52, 49, 55, 52, 48, 48, 48, 32, 120>>

\* the composite id of test_bgl_tokens: R02-M1-N0-C:J12-U11 x
Line_bgl_id ==
    <<82, 48, 50, 45, 77, 49, 45, 78, 48, 45, 67, 58, 74, 49, 50, 45, 85, 49, 49, 32,
      120>>

\* digits first, an uppercase letter within the first 8 bytes: 1AAAAAAA
Line_digit_composite ==
    <<49, 65, 65, 65, 65, 65, 65, 65>>

\* a composite id followed by a lowercase letter: 12-A:5_7b 9
Line_digit_composite_tail ==
    <<49, 50, 45, 65, 58, 53, 95, 55, 98, 32, 57>>

\* no uppercase letter within the first 8 bytes: 12345678A
Line_digits_then_upper ==
    <<49, 50, 51, 52, 53, 54, 55, 56, 65>>

\* a number with leading zeros: 007 a
Line_leading_zeros ==
    <<48, 48, 55, 32, 97>>

\* other ASCII whitespace: a\f\r\nb
Line_form_feed ==
    <<97, 12, 13, 10, 98>>

\* an address directly followed by letters: 1.2.3.4abc
Line_ipv4_abc ==
    <<49, 46, 50, 46, 51, 46, 52, 97, 98, 99>>

\* an address directly followed by a fifth octet: 1.2.3.4.5
Line_ipv4_dot5 ==
    <<49, 46, 50, 46, 51, 46, 52, 46, 53>>

\* three octets only: 1.2.3 4
Line_three_octets ==
    <<49, 46, 50, 46, 51, 32, 52>>
NamedLines ==
    { Line_max_tokens, Line_tokenizer_simple, Line_uuid, Line_uuid_digit_first, Line_bgl_id,
      Line_digit_composite, Line_digit_composite_tail, Line_digits_then_upper,
      Line_leading_zeros, Line_form_feed, Line_ipv4_abc, Line_ipv4_dot5, Line_three_octets }

TokenizerInputs == ShortLines \cup DottedLines \cup NamedLines

----------------------------------------------------------------------------
(* SpecTokenizer: Tokenizer::new on an input line, then next() until the     *)
(* line is consumed.                                                         *)

InitTokenizer ==
    /\ termmap = NewTermmap
    /\ calls = <<>>
    /\ doc_groups = NewDocGroups
    /\ arrival = <<>>
    /\ lines_consumed = 0
    /\ index = NoIndex
    /\ search_result = NoSearch
    /\ patterns = NoPatterns
    /\ tokenizer \in {Tokenizer_new(input) : input \in TokenizerInputs}
    /\ hashmap = NoHashMap

\* one call of Tokenizer::next that returns Some(token)
Tokenizer_next_step ==
    /\ tokenizer.pos < Len(tokenizer.input)
    /\ tokenizer' = Tokenizer_next(tokenizer)
    /\ UNCHANGED <<termmap, calls, doc_groups, arrival, lines_consumed, index, search_result,
                   patterns, hashmap>>

NextTokenizer == Tokenizer_next_step

SpecTokenizer == InitTokenizer /\ [][NextTokenizer]_vars

----------------------------------------------------------------------------
(* Claims about the tokenizer, under SpecTokenizer.                          *)

\* the token ranges start at 0, each starts where the one before ends, and the
\* last ends at pos
Contiguous(tokens, pos) ==
    /\ \A k \in DOMAIN tokens :
          /\ tokens[k].start = (IF k = 1 THEN 0 ELSE tokens[k - 1].end)
          /\ tokens[k].start < tokens[k].end
    /\ pos = (IF tokens = <<>> THEN 0 ELSE tokens[Len(tokens)].end)

\* C16: concatenating Token::to_string over the tokens yielded so far gives
\* exactly the bytes of the line consumed so far, whatever the line is made of
\* (letters, digits, punctuation, spaces, tabs, other ASCII whitespace), and
\* the token ranges are contiguous, do not overlap and cover those bytes.
C16_ConcatenationReproducesInput ==
    /\ Contiguous(tokenizer.tokens, tokenizer.pos)
    /\ reconstruct_from_tokens(tokenizer.input, tokenizer.tokens)
         = SubSeq(tokenizer.input, 1, tokenizer.pos)

\* the number of regular tokens the claim C17 gives for MAX_TOKENS
ClaimedMaxTokens == 100

\* "a a a a a b b b b b "
ClaimedCatchAll == str_repeat(<<97, 32>>, 5) \o str_repeat(<<98, 32>>, 5)

\* C17: a line yields at most 100 regular tokens; a CatchAll is the 101st
\* token only, it is the last one and its bytes are the rest of the line from
\* the position of the 101st token; the line of test_max_tokens yields 101
\* tokens, the last one the CatchAll "a a a a a b b b b b ".
C17_CatchAllAfterHundredTokens ==
    /\ Len(tokenizer.tokens) <= ClaimedMaxTokens + 1
    /\ \A k \in DOMAIN tokenizer.tokens :
          tokenizer.tokens[k].type = TT_CatchAll
             => /\ k = ClaimedMaxTokens + 1
                /\ k = Len(tokenizer.tokens)
                /\ tokenizer.tokens[k].end = Len(tokenizer.input)
    /\ (tokenizer.input = Line_max_tokens /\ tokenizer.pos >= Len(tokenizer.input))
          => /\ Len(tokenizer.tokens) = ClaimedMaxTokens + 1
             /\ tokenizer.tokens[Len(tokenizer.tokens)].type = TT_CatchAll
             /\ Token_to_string(tokenizer.tokens[Len(tokenizer.tokens)], tokenizer.input)
                  = ClaimedCatchAll

\* token is the one the classifiers give for bytes when they are tried in the
\* order IPv4, composite (a match length or None), Number, UUID, Word: the first
\* that matches gives the type and the number of bytes
ClassifiedInOrder(token, bytes, composite) ==
    IF is_ipv4(bytes) # None
    THEN token.type = TT_IPv4 /\ token.end - token.start = is_ipv4(bytes)
    ELSE IF composite # None
    THEN token.type = TT_Word /\ token.end - token.start = composite
    ELSE IF bytes[1] \in DIGIT_LOOKUP_TABLE
    THEN token.type = TT_Number
         /\ token.end - token.start = TakeWhileCount(bytes, DIGIT_LOOKUP_TABLE)
    ELSE IF is_uuid_v4(bytes) # None
    THEN token.type = TT_Uuid /\ token.end - token.start = 36
    ELSE /\ token.type = TT_Word
         /\ \A k \in 1..(token.end - token.start) : bytes[k] \notin WORD_DELIMITER_LOOKUP_TABLE
         /\ \/ token.end - token.start = Len(bytes)
            \/ bytes[token.end - token.start + 1] \in WORD_DELIMITER_LOOKUP_TABLE

\* the tokens of a run that begins with a non-whitespace, non-punctuation byte
ClassifiedTokens ==
    {k \in DOMAIN tokenizer.tokens :
        /\ tokenizer.tokens[k].type # TT_CatchAll
        /\ tokenizer.input[tokenizer.tokens[k].start + 1]
             \notin WHITESPACE_LOOKUP_TABLE \cup PUNCTUATION_LOOKUP_TABLE}

IsOctet(s) ==
    /\ Len(s) \in 1..3
    /\ \A k \in DOMAIN s : s[k] \in DIGIT_LOOKUP_TABLE
    /\ ParseU64From(s, 0) <= 255
    /\ Len(s) > 1 => s[1] # 48

\* s is exactly four dot-separated octets
IsDottedQuad(s) ==
    \E p \in 1..Len(s), q \in 1..Len(s), r \in 1..Len(s) :
        /\ p < q /\ q < r
        /\ s[p] = 46 /\ s[q] = 46 /\ s[r] = 46
        /\ IsOctet(SubSeq(s, 1, p - 1))
        /\ IsOctet(SubSeq(s, p + 1, q - 1))
        /\ IsOctet(SubSeq(s, q + 1, r - 1))
        /\ IsOctet(SubSeq(s, r + 1, Len(s)))

\* C19: an IPv4 token is exactly four dot-separated octets of one to three
\* digits, each at most 255 and without a leading zero, and its fourth octet is
\* immediately followed by a word delimiter or the end of the input, so that
\* '1.2.3.4abc' and '1.2.3.4.5' produce no IPv4 token.
C19_IPv4FollowedByDelimiterOrEnd ==
    \A k \in DOMAIN tokenizer.tokens :
        tokenizer.tokens[k].type = TT_IPv4
           => /\ IsDottedQuad(SubSeq(tokenizer.input, tokenizer.tokens[k].start + 1,
                                     tokenizer.tokens[k].end))
              /\ \/ tokenizer.tokens[k].end = Len(tokenizer.input)
                 \/ tokenizer.input[tokenizer.tokens[k].end + 1]
                      \in WORD_DELIMITER_LOOKUP_TABLE

----------------------------------------------------------------------------
(* Claims about the runs of equal terms in the dictionary writer, under     *)
(* SpecIndex.                                                               *)

\* the template ids term_id_to_template_id holds for the old id
TemplateIdsOfOld(old) ==
    IF index.term_id_to_templates[old + 1].kind = "Single"
    THEN IF index.term_id_to_templates[old + 1].opt # NoValue
         THEN {index.term_id_to_templates[old + 1].opt}
         ELSE {}
    ELSE index.term_id_to_templates[old + 1].set

\* the old ids whose term bytes are bytes
OldIdsOfBytes(bytes) == {e.id : e \in {x \in Range(Termmap_iter(termmap)) : x.bytes = bytes}}

\* the positions of the dictionary inserts whose key is bytes
InsertsOfBytes(bytes) == {i \in DOMAIN index.dictionary : index.dictionary[i].key = bytes}

\* the old ids of bytes have one new id, and every insert of bytes holds the
\* union of their template ids, ascending and without duplicates
RunMappedAndUnioned(bytes) ==
    /\ \A o1, o2 \in OldIdsOfBytes(bytes) : index.old_to_new[o1 + 1] = index.old_to_new[o2 + 1]
    /\ \A i \in InsertsOfBytes(bytes) :
          index.dictionary[i].template_ids
            = SortedSeqOfSet(UNION {TemplateIdsOfOld(o) : o \in OldIdsOfBytes(bytes)})

\* C20: all old ids whose term bytes are equal receive the same new id, the
\* term is inserted into the dictionary once, and its value is the union of
\* the template-id sets of all those old ids, ascending and without duplicates.
C20_EqualTermsInsertedOnceWithUnion ==
    index.written =>
        \A e \in Range(Termmap_iter(termmap)) :
            /\ RunMappedAndUnioned(e.bytes)
            /\ Cardinality(InsertsOfBytes(e.bytes)) = 1

----------------------------------------------------------------------------
(* Claims about term_id_idx_to_template_ids, under SpecIndex.               *)

\* the groups of the written index in the order of their template ids
WrittenValues == [i \in DOMAIN index.order |-> doc_groups.groups[index.order[i]]]

\* the state term_id_idx_to_template_ids starts from
NoPostings ==
    [term_id_to_templates |-> [t \in 1..num_terms(termmap) |-> SingleNone],
     marked_termids |-> [t \in 1..num_terms(termmap) |-> FALSE]]

\* the state term_id_idx_to_template_ids ended in
FinalPostings ==
    [term_id_to_templates |-> index.term_id_to_templates,
     marked_termids |-> PostingsAndMarks(WrittenValues, termmap).marked_termids]

\* C21: template id T is in the posting of term id t iff t occurs in a
\* Variable column of the group with template id T; the run-length-dedupe path
\* and the mark-array path give the same postings for every column; and the
\* mark array is all false again after every column.
C21_PostingsAreColumnMembership ==
    index.written =>
        /\ \A t \in DOMAIN index.term_id_to_templates : \A T \in DOMAIN WrittenValues :
              (T - 1) \in TemplateIdsOfOld(t - 1)
                 <=> \E c \in DOMAIN iter_columns(WrittenValues[T]) :
                        (t - 1) \in Range(iter_columns(WrittenValues[T])[c])
        /\ \A T \in DOMAIN WrittenValues : \A c \in DOMAIN iter_columns(WrittenValues[T]) :
              \A s \in {NoPostings, FinalPostings} :
                 /\ MarkPath(s, iter_columns(WrittenValues[T])[c], T - 1).term_id_to_templates
                      = DedupPath(s, iter_columns(WrittenValues[T])[c], T - 1).term_id_to_templates
                 /\ \A t \in DOMAIN s.marked_termids :
                       ~MarkPath(s, iter_columns(WrittenValues[T])[c], T - 1).marked_termids[t]
        /\ \A t \in DOMAIN FinalPostings.marked_termids : ~FinalPostings.marked_termids[t]

\* An index with a group of two Variable columns, both large, so that the
\* mark array is used twice, one of them holding a term id twice in rows that
\* are not adjacent.
C21_Witness ==
    /\ index.written
    /\ \E T \in DOMAIN WrittenValues :
          /\ Len(iter_columns(WrittenValues[T])) >= 2
          /\ \A c \in DOMAIN iter_columns(WrittenValues[T]) :
                Len(iter_columns(WrittenValues[T])[c]) > LARGE_COLUMN_LEN
          /\ \E c \in DOMAIN iter_columns(WrittenValues[T]) :
                \E i, j \in DOMAIN iter_columns(WrittenValues[T])[c] :
                   /\ j > i + 1
                   /\ iter_columns(WrittenValues[T])[c][i] = iter_columns(WrittenValues[T])[c][j]

----------------------------------------------------------------------------
(* Claims about the template ids of the written index, under SpecIndex.     *)

\* Searcher::new, the check of the templates read back: the template at
\* index idx has template_id idx
Searcher_new_check(templates) ==
    \A idx \in DOMAIN templates : templates[idx].template_id = idx - 1

\* the template ids of the groups of the written index
AssignedIds == {WrittenValues[i].template.template_id : i \in DOMAIN WrittenValues}

\* C22: the N groups have the template ids 0..N-1, each exactly once; for
\* every group the id its postings carry (its position in the walk), the name
\* of its column file and the position of its template in the templates file
\* are group.template.template_id; and the check of Searcher::new passes.
C22_TemplateIdIsPositionPostingAndFileName ==
    index.written =>
        /\ AssignedIds = 0..(Len(WrittenValues) - 1)
        /\ \A i, j \in DOMAIN WrittenValues :
              WrittenValues[i].template.template_id = WrittenValues[j].template.template_id
                 => i = j
        /\ DOMAIN index.column_files = {get_template_path(T) : T \in AssignedIds}
        /\ Len(index.templates) = Len(WrittenValues)
        /\ \A i \in DOMAIN WrittenValues :
              LET group == WrittenValues[i]
                  T     == group.template.template_id
              IN /\ T = i - 1
                 /\ \A t \in DOMAIN index.term_id_to_templates :
                       T \in TemplateIdsOfOld(t - 1)
                          <=> \E c \in DOMAIN iter_columns(group) :
                                 (t - 1) \in Range(iter_columns(group)[c])
                 /\ index.column_files[get_template_path(T)]
                       = write_column_and_remap(group, index.old_to_new)
                 /\ index.templates[T + 1] = TemplateWithMeta_from(group.template)
        /\ Searcher_new_check(index.templates)

\* An index of two groups, each with a Variable column, is written, and the
\* two column files differ.
C22_Witness ==
    /\ index.written
    /\ Len(WrittenValues) >= 2
    /\ \E i, j \in DOMAIN WrittenValues :
          /\ i # j
          /\ iter_columns(WrittenValues[i]) # <<>>
          /\ iter_columns(WrittenValues[j]) # <<>>
          /\ index.column_files[get_template_path(i - 1)]
                # index.column_files[get_template_path(j - 1)]

----------------------------------------------------------------------------
(* Claims about the column files, under SpecIndex.                          *)

\* the positions of the Variable slots of a template, in template order
VariableSlots(tokens) ==
    SelectSeq([k \in DOMAIN tokens |-> k], LAMBDA k : tokens[k].kind = "Variable")

\* the columns that decompress_column reads from the file of the group at
\* position i of the written index
ColumnsRead(i) ==
    decompress_column(index.column_files[get_template_path(i - 1)],
                      index.templates[i].num_docs)

----------------------------------------------------------------------------
(* Claims about the merge signature, under SpecPatterns.                    *)

\* what a slot counts as in the signature of a group of num_docs documents:
\* "Constant" with its bytes, "Whitespace" with its count, or "Variable"
CountsAs(token, num_docs) ==
    IF token.kind = "Constant" /\ num_docs >= MERGE_CONSTANT_NUM_DOCS
    THEN <<"Constant", token.text>>
    ELSE IF token.kind = "Whitespace" /\ num_docs >= MERGE_WHITESPACE_NUM_DOCS
         THEN <<"Whitespace", token.num>>
         ELSE <<"Variable">>

\* two groups have the same number of slots and count alike at every slot
SameSignature(g1, g2) ==
    /\ Len(g1.template.tokens) = Len(g2.template.tokens)
    /\ \A k \in DOMAIN g1.template.tokens :
          CountsAs(g1.template.tokens[k], g1.num_docs)
             = CountsAs(g2.template.tokens[k], g2.num_docs)

KeysMerged == UNION {Range(patterns.merged[e].group_id) : e \in DOMAIN patterns.merged}

\* C24: every call of insert_new_group adds exactly one group under a key
\* that no group of the map has. merge_templates calls it once per merged
\* bucket, after removing the bucket's groups: the groups are those before,
\* less the removed ones, plus one per bucket, and the keys of the merged
\* groups differ from each other and from the keys that stayed.
\* split_templates calls it once per moved term: every key stays and the
\* groups are one more per move. No document is lost in either.
C24_InsertNewGroupAddsOneGroup ==
    /\ patterns.op = "merge" =>
          /\ Cardinality(DOMAIN Groups)
                = Cardinality(DOMAIN patterns.groups) - Cardinality(KeysMerged)
                  + Len(patterns.merged)
          /\ \A e \in DOMAIN patterns.merged :
                patterns.merged[e].id \notin DOMAIN patterns.groups \ KeysMerged
          /\ \A e1, e2 \in DOMAIN patterns.merged :
                patterns.merged[e1].id = patterns.merged[e2].id => e1 = e2
          /\ DOMAIN patterns.groups \ KeysMerged \subseteq DOMAIN Groups
          /\ doc_groups.next_group_salt >= Len(patterns.merged)
          /\ SumNumDocs(Groups, DOMAIN Groups)
                = SumNumDocs(patterns.groups, DOMAIN patterns.groups)
    /\ patterns.op = "split" =>
          /\ Cardinality(DOMAIN Groups)
                = Cardinality(DOMAIN patterns.groups) + Len(patterns.moves)
          /\ DOMAIN patterns.groups \subseteq DOMAIN Groups
          /\ doc_groups.next_group_salt >= Len(patterns.moves)
          /\ SumNumDocs(Groups, DOMAIN Groups)
                = SumNumDocs(patterns.groups, DOMAIN patterns.groups)

----------------------------------------------------------------------------
(* Claims about is_id_like, under Spec.                                     *)

\* the share of distinct ids of a column is at least 0.98
MostlyDistinct(column) == Cardinality(Range(column)) * 100 >= 98 * Len(column)

\* the id is one that the id-like path handed out in this step: it is not
\* below the next_term_id the step started with, and the id-like log holds
\* it with the bytes after the step
FreshIdLikeId(id, bytes) ==
    /\ id >= termmap.next_term_id
    /\ id < termmap'.next_term_id
    /\ \E e \in Range(iter_unique(termmap')) : e.id = id /\ e.bytes = bytes
    /\ \A e \in Range(Termmap_iter(termmap)) : e.id # id

\* what a push of the group before into the group after does to is_id_like
PushKeepsIdLike(before, after, tokens) ==
    /\ after.num_docs = before.num_docs + 1
    /\ \A k \in DOMAIN before.template.tokens :
          LET slot  == before.template.tokens[k]
              slot2 == after.template.tokens[k]
          IN /\ (slot.kind # "Variable" /\ slot2.kind = "Variable") => ~slot2.is_id_like
             /\ slot.kind = "Variable" =>
                   /\ slot2.kind = "Variable"
                   /\ before.num_docs <= ID_LIKE_CHECK_NUM_DOCS => ~slot.is_id_like
                   /\ before.num_docs # ID_LIKE_CHECK_NUM_DOCS
                         => slot2.is_id_like = slot.is_id_like
                   /\ before.num_docs = ID_LIKE_CHECK_NUM_DOCS
                         => slot2.is_id_like = MostlyDistinct(ColumnOf(after, slot2))
                   /\ slot.is_id_like =>
                         FreshIdLikeId(ColumnOf(after, slot2)[Len(ColumnOf(after, slot2))],
                                       tokens[slot.token_index + 1].bytes)

\* C26: a slot is not id-like when it becomes a Variable; a push leaves
\* is_id_like as it was unless the group's num_docs is ID_LIKE_CHECK_NUM_DOCS
\* when the push starts, and then sets it to whether the share of distinct
\* ids of the column is at least 0.98; num_docs grows by one with every push,
\* so this happens at most once per column; and a token pushed into a column
\* that is id-like gets a fresh id from the id-like path.
C26_IdLikeSetOnceAtThreshold ==
    [][\A id \in DOMAIN doc_groups.groups :
          doc_groups'.groups[id] # doc_groups.groups[id] =>
             PushKeepsIdLike(doc_groups.groups[id], doc_groups'.groups[id],
                             arrival'[id][Len(arrival'[id])])]_vars

\* A group with a column that became id-like at the check and received two
\* more tokens afterwards, and a column that the check left not id-like.
C26_Witness ==
    \E id \in DOMAIN Groups :
        \E k1, k2 \in DOMAIN Groups[id].template.tokens :
            /\ Groups[id].num_docs = ID_LIKE_CHECK_NUM_DOCS + 3
            /\ Groups[id].template.tokens[k1].kind = "Variable"
            /\ Groups[id].template.tokens[k1].is_id_like
            /\ Groups[id].template.tokens[k2].kind = "Variable"
            /\ ~Groups[id].template.tokens[k2].is_id_like
            /\ Len(ColumnOf(Groups[id], Groups[id].template.tokens[k2]))
                  = ID_LIKE_CHECK_NUM_DOCS + 3

----------------------------------------------------------------------------
(* A SharedArenaHashMap<u32> on its own: it is created with some capacity,  *)
(* then mutate_or_create and get are called with keys of the model.         *)

\* The capacities handed to with_capacity; 4 is the capacity of the Default
Capacities == {0, 1, 3, 4}

\* The keys: two pairs with the same hash, a key of U16_MAX bytes and two
\* longer keys that start with it
K_1 == <<1>>
K_5 == <<5>>
K_2 == <<2>>
K_123 == <<1, 2, 3>>
K_1234 == <<1, 2, 3, 4>>
K_1235 == <<1, 2, 3, 5>>

MapKeys == {K_1, K_5, K_2, K_123, K_1234, K_1235}

\* The number of mutate_or_create calls on the map.
MaxMapCalls == 4

\* get does not return
Hangs == -2

\* history: the first U16_MAX bytes of a key
Clamped(key) == SubSeq(key, 1, Min(Len(key), U16_MAX))

\* history: the value of the entry of the key before the call, or NoValue
Present(key) ==
    IF Clamped(key) \in DOMAIN hashmap.entries THEN hashmap.entries[Clamped(key)]
    ELSE NoValue

InitHashMap ==
    /\ termmap = NewTermmap
    /\ calls = <<>>
    /\ doc_groups = NewDocGroups
    /\ arrival = <<>>
    /\ lines_consumed = 0
    /\ index = NoIndex
    /\ search_result = NoSearch
    /\ patterns = NoPatterns
    /\ tokenizer = Tokenizer_new(<<>>)
    /\ hashmap \in {[NoHashMap EXCEPT !.map = with_capacity(n)] : n \in Capacities}

\* The state after mutate_or_create returned r
Updated(key, new_val, r) ==
    hashmap' = [map     |-> r.map,
                entries |-> MapInsert(hashmap.entries, Clamped(key), new_val),
                count   |-> hashmap.count + 1,
                last    |-> [op |-> "mutate_or_create", key |-> key,
                             present |-> Present(key), seen |-> r.seen,
                             result |-> r.value]]

\* map.mutate_or_create(key, &mut arena, |o| new_val)
MutateOrCreate(key, new_val) ==
    /\ hashmap.count < MaxMapCalls
    /\ Updated(key, new_val,
               SharedArenaHashMap_mutate_or_create(hashmap.map, key, new_val))
    /\ UNCHANGED <<termmap, calls, doc_groups, arrival, lines_consumed, index,
                   search_result, patterns, tokenizer>>

\* map.get(key, &arena)
Get(key) ==
    /\ hashmap' = [hashmap EXCEPT !.last =
                      [op |-> "get", key |-> key, present |-> Present(key),
                       seen |-> NoValue,
                       result |-> IF get_returns(hashmap.map, key)
                                  THEN HashMap_get(hashmap.map, key)
                                  ELSE Hangs]]
    /\ UNCHANGED <<termmap, calls, doc_groups, arrival, lines_consumed, index,
                   search_result, patterns, tokenizer>>

\* the updater answers the number of the call
MutateOrCreate_step == \E key \in MapKeys : MutateOrCreate(key, hashmap.count + 1)

Get_step == \E key \in MapKeys : Get(key)

NextHashMap == MutateOrCreate_step \/ Get_step

SpecHashMap == InitHashMap /\ [][NextHashMap]_vars

----------------------------------------------------------------------------
(* Claims about SharedArenaHashMap, checked under SpecHashMap.              *)

\* the keys no longer than U16_MAX bytes
ShortKeys == {key \in MapKeys : Len(key) <= U16_MAX}

\* what get answers for the key in the current map
GetResult(key) ==
    IF get_returns(hashmap.map, key) THEN HashMap_get(hashmap.map, key) ELSE Hangs

\* C27: the map behaves as a map from byte keys to values: the updater of the
\* last mutate_or_create saw Some(v) iff the key was present with value v and
\* None otherwise; len() is the number of distinct keys; iter() yields every
\* key once with its latest value; get(k) answers that value for a present
\* key and None for an absent one.
C27_BehavesAsMap ==
    /\ hashmap.last.op = "mutate_or_create" => hashmap.last.seen = hashmap.last.present
    /\ hashmap.map.len = Cardinality(DOMAIN hashmap.entries)
    /\ Len(HashMap_iter(hashmap.map)) = Cardinality(DOMAIN hashmap.entries)
    /\ {<<e.bytes, e.id>> : e \in Range(HashMap_iter(hashmap.map))}
          = {<<k, hashmap.entries[k]>> : k \in DOMAIN hashmap.entries}
    /\ \A key \in ShortKeys :
          GetResult(key) = IF key \in DOMAIN hashmap.entries THEN hashmap.entries[key]
                           ELSE NoValue

\* the number is a power of two
RECURSIVE IsPowerOfTwo(_)
IsPowerOfTwo(n) == n = 1 \/ (n > 1 /\ n % 2 = 0 /\ IsPowerOfTwo(n \div 2))

\* C28: for every capacity the table size is a power of two, after every
\* mutate_or_create len * 2 <= table size, so a bucket is empty and the probe
\* loop of get ends for every key, present or absent.
C28_HalfEmptyAndProbesEnd ==
    /\ IsPowerOfTwo(Len(hashmap.map.table))
    /\ hashmap.map.mask = Len(hashmap.map.table) - 1
    /\ hashmap.count > 0 => hashmap.map.len * 2 <= Len(hashmap.map.table)
    /\ \E b \in DOMAIN hashmap.map.table : hashmap.map.table[b].key_addr = NullAddr
    /\ \A key \in MapKeys : get_returns(hashmap.map, key)

\* C29: a key longer than U16_MAX bytes is the entry of its first U16_MAX
\* bytes: the updater of mutate_or_create sees the value of that entry, only
\* clamped keys are stored and yielded by iter(), and get with the long key
\* finds the entry.
C29_LongKeysClampedEverywhere ==
    /\ (hashmap.last.op = "mutate_or_create" /\ Len(hashmap.last.key) > U16_MAX)
          => hashmap.last.seen = hashmap.last.present
    /\ {e.bytes : e \in Range(HashMap_iter(hashmap.map))} = DOMAIN hashmap.entries
    /\ \A e \in Range(HashMap_iter(hashmap.map)) : Len(e.bytes) <= U16_MAX
    /\ \A key \in MapKeys \ ShortKeys :
          Clamped(key) \in DOMAIN hashmap.entries
             => GetResult(key) = hashmap.entries[Clamped(key)]

----------------------------------------------------------------------------
(* Claims about the documents a search returns, under SpecIndex.            *)

\* the rows that the last search read from the column file of the template:
\* every row for a Full match, the rows holding the term id of the query
\* for a VariableMayMatch of a template in the term's posting
RowsReturned(template_id) ==
    LET sr == search_single_term(index.dictionary, search_result.query)
    IN IF check_match(index.templates[template_id + 1].parts, search_result.query) = "Full"
       THEN documents_ids_hit(index.templates, index.column_files, MatchAll,
                              template_id, MAX_HITS)
       ELSE IF sr.found /\ template_id \in Range(sr.template_ids)
            THEN documents_ids_hit(index.templates, index.column_files,
                                   MatchTerm(sr.term_id), template_id, MAX_HITS)
            ELSE <<>>

\* the Docs of the last search that belong to the template
DocsOf(template_id) ==
    {d \in DOMAIN search_result.docs : search_result.docs[d].template_id = template_id}

\* C30: a search returns every document (template id, row) at most once: for
\* every template the rows returned are pairwise different, the search holds
\* one Doc per distinct row, and at most MAX_HITS distinct rows per template.
C30_EachDocumentAtMostOnce ==
    search_result.searched =>
        \A T \in get_potential_templates(index.templates, search_result.query) :
            /\ \A i, j \in DOMAIN RowsReturned(T) :
                  RowsReturned(T)[i] = RowsReturned(T)[j] => i = j
            /\ Cardinality(DocsOf(T)) = Cardinality(Range(RowsReturned(T)))
            /\ Cardinality(Range(RowsReturned(T))) <= MAX_HITS

============================================================================
